---- MODULE Spec2Model ----
(***************************************************************************)
(* The generic typed object store of store/boltdb: a bucket hierarchy      *)
(* (type bucket -> record bucket -> flat entries and nested map buckets)   *)
(* and the handler operations SaveValue, LoadValues, LoadValuesByFilter,   *)
(* UpdateValue, DeleteValues, CountValues and IterateFields that run on it  *)
(* inside one engine transaction each.  Spec runs the calls one after the  *)
(* other; SpecTx runs them as concurrent transactions of two writers and a *)
(* reader; SpecExec runs the raw transaction escape; SpecNs and SpecPage   *)
(* run the namespace store, which keeps its namespaces through the         *)
(* handler, with the transactions of InitData as steps of their own.       *)
(* SpecIns runs the instance store of the relational backend, which keeps  *)
(* the same logical contract on a table of instances; SpecRetry and        *)
(* SpecBatch run the retry and batch helpers of that backend.              *)
(***************************************************************************)
EXTENDS Integers, Sequences, FiniteSets, TLC

VARIABLES
    db,         \* the committed bucket hierarchy of the bolt file
    last,       \* the handler call that ran last: its arguments and what it returned
    nops,       \* number of write transactions run so far
    wtx,        \* per writer goroutine: its open write transaction, if any
    rtx,        \* per reader goroutine: its read transaction and what it has read
    committed,  \* every store state a write transaction has committed so far
    serial,     \* the store the committed calls give when run one at a time
    master,     \* the instance table of the relational instance store
    running     \* per caller: its store call that is between two of its transactions

vars == <<db, last, nops, wtx, rtx, committed, serial, master, running>>
txvars == <<wtx, rtx, committed, serial>>

(***************************************************************************)
(* Bounds and universes                                                    *)
(***************************************************************************)
\* number of write transactions of the handler in a run
MaxOps == 3
\* number of write transactions the concurrent writers begin in a run
MaxCommits == 3

\* the goroutines of the concurrent runs
Writers == {"w1", "w2"}
Readers == {"r1"}
\* the callers whose store calls take more than one transaction
Callers == {"A", "B"}
\* the caller that runs InitData while the others run their calls
Initialisers == {"A"}

\* type names a caller passes
Types == {"service", "namespace"}
\* the type the reads of a run are asked for; the writes go to either type
\* and the handler treats every type name alike
ReadTypes == {"service"}

\* record keys in the engine's iteration order (lexicographic over key bytes)
KeySeq == <<"Polaris", "default">>
Keys == {KeySeq[i] : i \in 1..Len(KeySeq)}
\* "" is the key the engine refuses to create a bucket for
KeyInputs == Keys \cup {""}

NoErr == "nil"

(***************************************************************************)
(* Go values handed to and returned by the handler.  One record layout for *)
(* every kind, so that values of different kinds compare.                  *)
(***************************************************************************)
GoVal(kind, s, n, m, isnil) == [kind |-> kind, s |-> s, n |-> n, m |-> m, isnil |-> isnil]
Str(s) == GoVal("string", s, 0, {}, FALSE)
Bool(b) == GoVal("bool", "", IF b THEN 1 ELSE 0, {}, FALSE)
Num(kind, n) == GoVal(kind, "", n, {}, FALSE)
Time(t) == GoVal("time", "", t, {}, FALSE)
\* a map[string]string as its set of <<key, value>> pairs; a nil map has no pairs
Map(m) == GoVal("map", "", 0, m, FALSE)
NilMap == GoVal("map", "", 0, {}, TRUE)
\* a float64: a kind UpdateValue has no case for
Float == GoVal("float64", "", 0, {}, FALSE)
\* the nil interface value
NilV == GoVal("nil", "", 0, {}, TRUE)
\* a map that is not a map[string]string (say a map[string]int)
IntMap == GoVal("intmap", "", 0, {}, FALSE)
\* a pointer to a protocol message, named by its marshalled bytes
Msg(s) == GoVal("message", s, 0, {}, FALSE)

(***************************************************************************)
(* Record shapes (the prototype instances): field names and static kinds.  *)
(***************************************************************************)
Shapes == {"Service", "Location"}
\* the fields of a namespace, the shape the namespace store hands in
NamespaceFields == {"Name", "Comment", "Token", "Owner", "Valid", "CreateTime", "ModifyTime"}
ShapeFields(shape) ==
    IF shape = "Service" THEN {"Name", "Meta", "ModifyTime"}
    ELSE IF shape = "Namespace" THEN NamespaceFields
    ELSE {"RegionID", "Valid"}
FieldNames == {"Name", "Meta", "ModifyTime", "RegionID", "Valid"} \cup NamespaceFields
FieldKind(field) ==
    CASE field = "Name" -> "string"
      [] field = "Meta" -> "map"
      [] field = "ModifyTime" -> "time"
      [] field = "RegionID" -> "uint32"
      [] field = "Valid" -> "bool"
      [] field = "Comment" -> "string"
      [] field = "Token" -> "string"
      [] field = "Owner" -> "string"
      [] field = "CreateTime" -> "time"

\* the zero value a freshly allocated struct holds in a field of this kind
ZeroVal(kind) ==
    CASE kind = "string" -> Str("")
      [] kind = "bool" -> Bool(FALSE)
      [] kind = "time" -> Time(0)
      [] kind = "map" -> NilMap
      [] OTHER -> Num(kind, 0)

(***************************************************************************)
(* Type tag codec: a tagged buffer is a discriminant and a payload.        *)
(***************************************************************************)
Buffer(tag, s, n) == [tag |-> tag, s |-> s, n |-> n]
ZeroBuf == Buffer("", "", 0)

encodeStringBuffer(s) == Buffer("typeString", s, 0)
encodeBoolBuffer(b) == Buffer("typeBool", "", IF b THEN 1 ELSE 0)
encodeIntBuffer(n, typ) == Buffer(typ, "", n)
encodeUintBuffer(n, typ) == Buffer(typ, "", n)
encodeTimeBuffer(t) == Buffer("typeTime", "", t)
encodeMessageBuffer(s) == Buffer("typeProtobuf", s, 0)

numberKindToType(kind) ==
    CASE kind = "int" -> "typeInt"
      [] kind = "int64" -> "typeInt64"
      [] kind = "uint32" -> "typeUint32"
      [] OTHER -> ""

IntKinds == {"int", "int8", "int16", "int32", "int64"}
UintKinds == {"uint", "uint8", "uint16", "uint32", "uint64"}
IntTags == {"typeInt", "typeInt8", "typeInt16", "typeInt32", "typeInt64"}
UintTags == {"typeUint", "typeUint8", "typeUint16", "typeUint32", "typeUint64"}

\* the tag the codec writes for a value of a static kind
KindTag(kind) ==
    CASE kind = "string" -> "typeString"
      [] kind = "bool" -> "typeBool"
      [] kind = "time" -> "typeTime"
      [] OTHER -> numberKindToType(kind)

decodeStringBuffer(buf) == Str(buf.s)
decodeBoolBuffer(buf) == Bool(buf.n # 0)
decodeTimeBuffer(buf) == Time(buf.n)
decodeMessageBuffer(buf) == Msg(buf.s)
\* the kind named by an integer tag: "typeUint32" -> "uint32"
TagKind(tag) ==
    CASE tag = "typeInt" -> "int"
      [] tag = "typeInt64" -> "int64"
      [] tag = "typeUint32" -> "uint32"
      [] OTHER -> "int"
decodeIntBuffer(buf, typByte) == Num(TagKind(typByte), buf.n)
decodeUintBuffer(buf, typByte) == Num(TagKind(typByte), buf.n)

(***************************************************************************)
(* Field mapper                                                            *)
(***************************************************************************)
toBucketField(field) ==
    CASE field = "Name" -> "name"
      [] field = "Meta" -> "meta"
      [] field = "ModifyTime" -> "modifytime"
      [] field = "RegionID" -> "regionid"
      [] field = "Valid" -> "valid"
      [] field = "Comment" -> "comment"
      [] field = "Token" -> "token"
      [] field = "Owner" -> "owner"
      [] field = "CreateTime" -> "createtime"
BucketKeys == {toBucketField(f) : f \in FieldNames}

(***************************************************************************)
(* The bucket hierarchy.  Inside a record bucket a key holds nothing, a    *)
(* flat tagged buffer, or a nested bucket of raw string pairs.             *)
(***************************************************************************)
NoEntry == [e |-> "none", buf |-> ZeroBuf, m |-> {}]
Flat(buf) == [e |-> "flat", buf |-> buf, m |-> {}]
Nested(m) == [e |-> "bucket", buf |-> ZeroBuf, m |-> m]

EmptyBucket == [k \in BucketKeys |-> NoEntry]
NoRecord == [present |-> FALSE, ent |-> EmptyBucket]
NoTypeBucket == [exists |-> FALSE, recs |-> [k \in Keys |-> NoRecord]]
EmptyDB == [t \in Types |-> NoTypeBucket]

\* tx.Bucket(typ).Bucket(key) # nil
HasRecord(d, typ, key) ==
    /\ typ \in Types
    /\ key \in Keys
    /\ d[typ].exists
    /\ d[typ].recs[key].present

\* what a transaction function hands back to db.Update / db.View
TxResult(err, d) == [err |-> err, db |-> d]


(***************************************************************************)
(* Engine primitives on one record bucket.  Each returns the error the     *)
(* engine reports and the bucket as the open transaction then sees it.     *)
(***************************************************************************)
EntResult(err, ent) == [err |-> err, ent |-> ent]

\* bucket.Put(k, buf): a key that names a nested bucket cannot take a value
Put(ent, k, buf) ==
    IF ent[k].e = "bucket" THEN EntResult("ErrIncompatibleValue", ent)
    ELSE EntResult(NoErr, [ent EXCEPT ![k] = Flat(buf)])

\* the nested bucket of a map field: dropped if present, then written anew
\* unless the map has no entries
encodeRawMap(ent, name, m) ==
    LET e1 == IF ent[name].e = "bucket" THEN [ent EXCEPT ![name] = NoEntry] ELSE ent
    IN  IF m = {} THEN EntResult(NoErr, e1)
        ELSE IF e1[name].e = "flat" THEN EntResult("ErrIncompatibleValue", e1)
        ELSE IF \E p \in m : p[1] = "" THEN EntResult("ErrKeyRequired", e1)
        ELSE EntResult(NoErr, [e1 EXCEPT ![name] = Nested(m)])

(***************************************************************************)
(* Record codec                                                            *)
(***************************************************************************)
\* a record handed to SaveValue: its shape and one Go value per declared field
Object(shape, f) == [shape |-> shape, f |-> f]

\* the tagged buffer of a scalar field value
encodeScalar(v) ==
    CASE v.kind = "string" -> encodeStringBuffer(v.s)
      [] v.kind = "bool" -> encodeBoolBuffer(v.n # 0)
      [] v.kind = "time" -> encodeTimeBuffer(v.n)
      [] v.kind \in IntKinds -> encodeIntBuffer(v.n, numberKindToType(v.kind))
      [] v.kind \in UintKinds -> encodeUintBuffer(v.n, numberKindToType(v.kind))
      [] OTHER -> ZeroBuf

\* serializeObject: the flat buffers of the scalar fields are returned to the
\* caller; the map fields are written into the bucket as nested buckets
RECURSIVE serializeFields(_, _, _, _)
serializeFields(ent, value, todo, buffers) ==
    IF todo = {} THEN [err |-> NoErr, ent |-> ent, buffers |-> buffers]
    ELSE LET field == CHOOSE x \in todo : TRUE
             v == value.f[field]
             name == toBucketField(field)
         IN  IF v.kind = "map"
             THEN LET r == encodeRawMap(ent, name, v.m)
                  IN  IF r.err # NoErr
                      THEN [err |-> r.err, ent |-> r.ent, buffers |-> buffers]
                      ELSE serializeFields(r.ent, value, todo \ {field}, buffers)
             ELSE serializeFields(ent, value, todo \ {field},
                                  buffers \cup {<<name, encodeScalar(v)>>})

serializeObject(ent, value) == serializeFields(ent, value, ShapeFields(value.shape), {})

\* the value a declared field takes from the record bucket.  A map field
\* reads its nested bucket, a scalar field its flat entry; a field with no
\* such entry keeps its zero value; a flat entry tagged with another kind
\* than the field declares is a decode error
decodeField(entry, kind) ==
    IF kind = "map"
    THEN IF entry.e = "bucket" THEN [err |-> NoErr, val |-> Map(entry.m)]
         ELSE [err |-> NoErr, val |-> ZeroVal(kind)]
    ELSE IF entry.e # "flat" THEN [err |-> NoErr, val |-> ZeroVal(kind)]
    ELSE IF entry.buf.tag # KindTag(kind) THEN [err |-> "invalid type", val |-> ZeroVal(kind)]
    ELSE [err |-> NoErr,
          val |-> CASE kind = "string" -> decodeStringBuffer(entry.buf)
                    [] kind = "bool" -> decodeBoolBuffer(entry.buf)
                    [] kind = "time" -> decodeTimeBuffer(entry.buf)
                    [] kind \in IntKinds -> decodeIntBuffer(entry.buf, entry.buf.tag)
                    [] OTHER -> decodeUintBuffer(entry.buf, entry.buf.tag)]

\* deserializeObject: a new instance of the prototype's shape, every declared
\* field looked up flat-then-nested
deserializeObject(ent, shape) ==
    LET dec == [f \in ShapeFields(shape) |-> decodeField(ent[toBucketField(f)], FieldKind(f))]
    IN  IF \E f \in ShapeFields(shape) : dec[f].err # NoErr
        THEN [err |-> "invalid type", obj |-> Object(shape, [f \in ShapeFields(shape) |-> ZeroVal(FieldKind(f))])]
        ELSE [err |-> NoErr, obj |-> Object(shape, [f \in ShapeFields(shape) |-> dec[f].val])]


(***************************************************************************)
(* The engine's transactions: db.Update commits what the function wrote    *)
(* when it returns nil and rolls back otherwise; db.View commits nothing.  *)
(***************************************************************************)
\* (variant: only a panic rolls back, a returned error commits)
UpdateKeepPartial(d, res) == IF res.err = "panic" THEN d ELSE res.db

\* (variant: what the function wrote before it failed is committed)
UpdateCommitAlways(d, res) == res.db

Update(d, res) == IF res.err = NoErr THEN res.db ELSE d

\* bucket.Put of every returned buffer, in some order of the buffers map
RECURSIVE putBuffers(_, _)
putBuffers(ent, buffers) ==
    IF buffers = {} THEN EntResult(NoErr, ent)
    ELSE LET kv == CHOOSE x \in buffers : TRUE
             r == Put(ent, kv[1], kv[2])
         IN  IF r.err # NoErr THEN r ELSE putBuffers(r.ent, buffers \ {kv})

\* (variant: the old record bucket is reused instead of deleted)
freshBucketKeepOld(d, typ, key) == d[typ].recs[key].ent

\* the record bucket SaveValue writes into: the old one, if any, deleted and a
\* fresh one created under the key
freshBucket(d, typ, key) ==
    LET tb == IF d[typ].recs[key].present
              THEN [d[typ] EXCEPT !.recs[key] = NoRecord]
              ELSE d[typ]
    IN  [tb EXCEPT !.recs[key].present = TRUE].recs[key].ent

\* (variant: the returned flat buffers are never put)
SaveValueTxNoPut(d, typ, key, value) ==
    IF typ = "" THEN TxResult("ErrBucketNameRequired", d)
    ELSE LET d1 == [d EXCEPT ![typ].exists = TRUE]
         IN  IF key = "" THEN TxResult("ErrBucketNameRequired", d1)
             ELSE LET ser == serializeObject(freshBucket(d1, typ, key), value)
                  IN  TxResult(ser.err,
                               [d1 EXCEPT ![typ].recs[key] = [present |-> TRUE, ent |-> ser.ent]])

\* the function SaveValue runs inside db.Update
SaveValueTx(d, typ, key, value) ==
    IF typ = "" THEN TxResult("ErrBucketNameRequired", d)
    ELSE LET d1 == [d EXCEPT ![typ].exists = TRUE]
         IN  IF key = "" THEN TxResult("ErrBucketNameRequired", d1)
             ELSE LET ser == serializeObject(freshBucket(d1, typ, key), value)
                      put == IF ser.err # NoErr THEN EntResult(ser.err, ser.ent)
                             ELSE putBuffers(ser.ent, ser.buffers)
                  IN  TxResult(put.err,
                               [d1 EXCEPT ![typ].recs[key] = [present |-> TRUE, ent |-> put.ent]])

\* getBucket
getBucket(d, typ, key) ==
    IF HasRecord(d, typ, key) THEN d[typ].recs[key] ELSE NoRecord

\* (variant: a key with no record bucket is reported as an error)
RECURSIVE loadValuesStrict(_, _, _, _, _)
loadValuesStrict(d, typ, keys, shape, values) ==
    IF keys = <<>> THEN [err |-> NoErr, values |-> values]
    ELSE LET key == Head(keys)
             bucket == getBucket(d, typ, key)
         IN  IF ~bucket.present THEN [err |-> "not found", values |-> values]
             ELSE LET r == deserializeObject(bucket.ent, shape)
                  IN  IF r.err # NoErr THEN [err |-> r.err, values |-> values]
                      ELSE loadValuesStrict(d, typ, Tail(keys), shape,
                                            [k \in (DOMAIN values) \cup {key} |->
                                                IF k = key THEN r.obj ELSE values[k]])

\* loadValues over the key slice: stops at the first record that fails to
\* decode, keeping the values loaded before it
RECURSIVE loadValues(_, _, _, _, _)
loadValues(d, typ, keys, shape, values) ==
    IF keys = <<>> THEN [err |-> NoErr, values |-> values]
    ELSE LET key == Head(keys)
             bucket == getBucket(d, typ, key)
         IN  IF ~bucket.present THEN loadValues(d, typ, Tail(keys), shape, values)
             ELSE LET r == deserializeObject(bucket.ent, shape)
                  IN  IF r.err # NoErr THEN [err |-> r.err, values |-> values]
                      ELSE loadValues(d, typ, Tail(keys), shape,
                                      [k \in (DOMAIN values) \cup {key} |->
                                          IF k = key THEN r.obj ELSE values[k]])

NoValues == [k \in {} |-> NoRecord]

\* LoadValues: no transaction for an empty key slice
LoadValues(d, typ, keys, shape) ==
    IF Len(keys) = 0 THEN [err |-> NoErr, values |-> NoValues]
    ELSE loadValues(d, typ, keys, shape, NoValues)

\* (variant: the keys are collected in the opposite order)
getKeysDescending(tb) ==
    LET up == SelectSeq(KeySeq, LAMBDA k : tb.recs[k].present)
    IN  [i \in 1..Len(up) |-> up[Len(up) + 1 - i]]

\* getKeys: the keys of a type bucket in engine order
getKeys(tb) == SelectSeq(KeySeq, LAMBDA k : tb.recs[k].present)

\* (variant: the loop returns after the first record)
loadAllKeysFirstOnly(tb, keys, shape, values) ==
    IF keys = <<>> THEN [err |-> NoErr, values |-> values]
    ELSE LET key == Head(keys)
             r == deserializeObject(tb.recs[key].ent, shape)
         IN  IF r.err # NoErr THEN [err |-> r.err, values |-> values]
             ELSE [err |-> NoErr,
                   values |-> [k \in (DOMAIN values) \cup {key} |->
                                  IF k = key THEN r.obj ELSE values[k]]]

\* (variant: a record that fails to decode is skipped)
RECURSIVE loadAllKeysSkipBad(_, _, _, _)
loadAllKeysSkipBad(tb, keys, shape, values) ==
    IF keys = <<>> THEN [err |-> NoErr, values |-> values]
    ELSE LET key == Head(keys)
             bucket == tb.recs[key]
         IN  IF ~bucket.present THEN loadAllKeysSkipBad(tb, Tail(keys), shape, values)
             ELSE LET r == deserializeObject(bucket.ent, shape)
                  IN  IF r.err # NoErr
                      THEN loadAllKeysSkipBad(tb, Tail(keys), shape, values)
                      ELSE loadAllKeysSkipBad(tb, Tail(keys), shape,
                                              [k \in (DOMAIN values) \cup {key} |->
                                                  IF k = key THEN r.obj ELSE values[k]])

\* the loop of LoadValuesAll over the keys of the type bucket: stops at the
\* first record that fails to decode, keeping the values loaded before it
RECURSIVE loadAllKeys(_, _, _, _)
loadAllKeys(tb, keys, shape, values) ==
    IF keys = <<>> THEN [err |-> NoErr, values |-> values]
    ELSE LET key == Head(keys)
             bucket == tb.recs[key]
         IN  IF ~bucket.present THEN loadAllKeys(tb, Tail(keys), shape, values)
             ELSE LET r == deserializeObject(bucket.ent, shape)
                  IN  IF r.err # NoErr THEN [err |-> r.err, values |-> values]
                      ELSE loadAllKeys(tb, Tail(keys), shape,
                                       [k \in (DOMAIN values) \cup {key} |->
                                           IF k = key THEN r.obj ELSE values[k]])

\* (variant: a missing type bucket is reported as an error)
LoadValuesAllStrict(d, typ, shape) ==
    IF typ \notin Types \/ ~d[typ].exists THEN [err |-> "bucket not found", values |-> NoValues]
    ELSE loadAllKeys(d[typ], getKeys(d[typ]), shape, NoValues)

\* LoadValuesAll: every record of the type bucket, in the order of getKeys
LoadValuesAll(d, typ, shape) ==
    IF typ \notin Types \/ ~d[typ].exists THEN [err |-> NoErr, values |-> NoValues]
    ELSE loadAllKeys(d[typ], getKeys(d[typ]), shape, NoValues)

\* CountValues
CountValues(d, typ) ==
    IF typ \notin Types \/ ~d[typ].exists THEN 0
    ELSE Cardinality({k \in Keys : d[typ].recs[k].present})

\* (variant: the record bucket is looked up but not deleted)
deleteKeySkip(tb, key) == [err |-> NoErr, tb |-> tb]

\* (variant: the engine's DeleteBucket is called without the lookup)
deleteKeyStrict(tb, key) ==
    IF key \in Keys /\ tb.recs[key].present
    THEN [err |-> NoErr, tb |-> [tb EXCEPT !.recs[key] = NoRecord]]
    ELSE [err |-> "ErrBucketNotFound", tb |-> tb]

\* one turn of the loop of deleteValues: the record bucket is deleted only
\* when the type bucket holds it
deleteKey(tb, key) ==
    IF key \in Keys /\ tb.recs[key].present
    THEN [err |-> NoErr, tb |-> [tb EXCEPT !.recs[key] = NoRecord]]
    ELSE [err |-> NoErr, tb |-> tb]

RECURSIVE deleteKeys(_, _)
deleteKeys(tb, keys) ==
    IF keys = <<>> THEN [err |-> NoErr, tb |-> tb]
    ELSE LET r == deleteKey(tb, Head(keys))
         IN  IF r.err # NoErr THEN r ELSE deleteKeys(r.tb, Tail(keys))

\* (variant: every record bucket of the type is deleted)
deleteValuesAll(d, typ, keys) ==
    IF typ \notin Types \/ ~d[typ].exists THEN TxResult(NoErr, d)
    ELSE TxResult(NoErr, [d EXCEPT ![typ].recs = [k \in Keys |-> NoRecord]])

\* (variant: a type bucket left without records is deleted as well)
deleteValuesDropType(d, typ, keys) ==
    IF typ \notin Types \/ ~d[typ].exists THEN TxResult(NoErr, d)
    ELSE LET r == deleteKeys(d[typ], keys)
         IN  IF \A k \in Keys : ~r.tb.recs[k].present
             THEN TxResult(r.err, [d EXCEPT ![typ] = NoTypeBucket])
             ELSE TxResult(r.err, [d EXCEPT ![typ] = r.tb])

\* deleteValues over the key slice
deleteValues(d, typ, keys) ==
    IF typ \notin Types \/ ~d[typ].exists THEN TxResult(NoErr, d)
    ELSE LET r == deleteKeys(d[typ], keys)
         IN  TxResult(r.err, [d EXCEPT ![typ] = r.tb])

\* the function DeleteValues hands to db.Update, none for an empty key slice
DeleteValuesTx(d, typ, keys) ==
    IF Len(keys) = 0 THEN TxResult(NoErr, d) ELSE deleteValues(d, typ, keys)


(***************************************************************************)
(* UpdateValue                                                             *)
(***************************************************************************)
\* (variant: every property is written under the bucket key of "Name")
updatePropertyWrongKey(ent, propKey, v) ==
    LET bucketKey == toBucketField("Name")
    IN  CASE v.kind = "nil" -> EntResult("panic", ent)
          [] v.kind = "intmap" -> EntResult("panic", ent)
          [] v.kind = "string" -> Put(ent, bucketKey, encodeStringBuffer(v.s))
          [] v.kind = "bool" -> Put(ent, bucketKey, encodeBoolBuffer(v.n # 0))
          [] v.kind \in IntKinds ->
                Put(ent, bucketKey, encodeIntBuffer(v.n, numberKindToType(v.kind)))
          [] v.kind \in UintKinds ->
                Put(ent, bucketKey, encodeUintBuffer(v.n, numberKindToType(v.kind)))
          [] v.kind = "map" -> encodeRawMap(ent, bucketKey, v.m)
          [] v.kind = "message" -> Put(ent, bucketKey, encodeMessageBuffer(v.s))
          [] v.kind = "time" -> Put(ent, bucketKey, encodeTimeBuffer(v.n))
          [] OTHER -> EntResult(NoErr, ent)

\* (variant: the switch has no case for a timestamp)
updatePropertyNoTime(ent, propKey, v) ==
    LET bucketKey == toBucketField(propKey)
    IN  CASE v.kind = "nil" -> EntResult("panic", ent)
          [] v.kind = "intmap" -> EntResult("panic", ent)
          [] v.kind = "string" -> Put(ent, bucketKey, encodeStringBuffer(v.s))
          [] v.kind = "bool" -> Put(ent, bucketKey, encodeBoolBuffer(v.n # 0))
          [] v.kind \in IntKinds ->
                Put(ent, bucketKey, encodeIntBuffer(v.n, numberKindToType(v.kind)))
          [] v.kind \in UintKinds ->
                Put(ent, bucketKey, encodeUintBuffer(v.n, numberKindToType(v.kind)))
          [] v.kind = "map" -> encodeRawMap(ent, bucketKey, v.m)
          [] v.kind = "message" -> Put(ent, bucketKey, encodeMessageBuffer(v.s))
          [] OTHER -> EntResult(NoErr, ent)

\* one turn of the loop over the property map: the switch on the runtime
\* kind of the value.  A nil value has no runtime type to switch on, and a map
\* of another type than map[string]string fails the type assertion of the
\* map case: both panic, which the engine answers by rolling back.
updateProperty(ent, propKey, v) ==
    LET bucketKey == toBucketField(propKey)
    IN  CASE v.kind = "nil" -> EntResult("panic", ent)
          [] v.kind = "intmap" -> EntResult("panic", ent)
          [] v.kind = "string" -> Put(ent, bucketKey, encodeStringBuffer(v.s))
          [] v.kind = "bool" -> Put(ent, bucketKey, encodeBoolBuffer(v.n # 0))
          [] v.kind \in IntKinds ->
                Put(ent, bucketKey, encodeIntBuffer(v.n, numberKindToType(v.kind)))
          [] v.kind \in UintKinds ->
                Put(ent, bucketKey, encodeUintBuffer(v.n, numberKindToType(v.kind)))
          [] v.kind = "map" -> encodeRawMap(ent, bucketKey, v.m)
          [] v.kind = "message" -> Put(ent, bucketKey, encodeMessageBuffer(v.s))
          [] v.kind = "time" -> Put(ent, bucketKey, encodeTimeBuffer(v.n))
          [] OTHER -> EntResult(NoErr, ent)

\* the loop over the properties, in the order the map iteration yields them
RECURSIVE updateProperties(_, _)
updateProperties(ent, props) ==
    IF props = <<>> THEN EntResult(NoErr, ent)
    ELSE LET r == updateProperty(ent, Head(props)[1], Head(props)[2])
         IN  IF r.err # NoErr THEN r ELSE updateProperties(r.ent, Tail(props))

\* (variant: the type bucket and the record bucket are created when missing)
UpdateValueTxUpsert(d, typ, key, props) ==
    IF Len(props) = 0 \/ key \notin Keys THEN TxResult(NoErr, d)
    ELSE LET r == updateProperties(d[typ].recs[key].ent, props)
         IN  TxResult(r.err, [d EXCEPT ![typ].exists = TRUE,
                                       ![typ].recs[key] = [present |-> TRUE, ent |-> r.ent]])

\* the function UpdateValue runs inside db.Update
UpdateValueTx(d, typ, key, props) ==
    IF typ \notin Types \/ ~d[typ].exists THEN TxResult(NoErr, d)
    ELSE IF key \notin Keys \/ ~d[typ].recs[key].present THEN TxResult(NoErr, d)
    ELSE IF Len(props) = 0 THEN TxResult(NoErr, d)
    ELSE LET r == updateProperties(d[typ].recs[key].ent, props)
         IN  TxResult(r.err, [d EXCEPT ![typ].recs[key].ent = r.ent])

(***************************************************************************)
(* Single-field read and filtering                                         *)
(***************************************************************************)
ValResult(err, val) == [err |-> err, val |-> val]

\* reflectMapMsg: the nested bucket as a map, a nil map when there is none
reflectMapMsg(ent, bucketField) ==
    IF ent[bucketField].e # "bucket" THEN ValResult(NoErr, NilMap)
    ELSE ValResult(NoErr, Map(ent[bucketField].m))

\* reflectProtoMsg: the message type the prototype declares for the field
reflectProtoMsg(shape, field) ==
    IF field \notin ShapeFields(shape) THEN "field not found"
    ELSE IF FieldKind(field) # "message" THEN "field type not match"
    ELSE NoErr

\* (variant: an unrecognized tag byte is reported as an error)
getFieldObjectStrictTag(ent, shape, field) ==
    LET bucketField == toBucketField(field)
        e == ent[bucketField]
        typByte == e.buf.tag
    IN  IF e.e # "flat" THEN reflectMapMsg(ent, bucketField)
        ELSE CASE typByte = "typeString" -> ValResult(NoErr, decodeStringBuffer(e.buf))
               [] typByte = "typeBool" -> ValResult(NoErr, decodeBoolBuffer(e.buf))
               [] typByte = "typeTime" -> ValResult(NoErr, decodeTimeBuffer(e.buf))
               [] typByte = "typeProtobuf" ->
                     IF reflectProtoMsg(shape, field) # NoErr
                     THEN ValResult(reflectProtoMsg(shape, field), Bool(FALSE))
                     ELSE ValResult(NoErr, decodeMessageBuffer(e.buf))
               [] typByte \in IntTags -> ValResult(NoErr, decodeIntBuffer(e.buf, typByte))
               [] typByte \in UintTags -> ValResult(NoErr, decodeUintBuffer(e.buf, typByte))
               [] OTHER -> ValResult("unrecognized type", NilV)

\* getFieldObject: dispatch on the tag byte of the flat entry; no flat entry
\* means the field is read as a map
getFieldObject(ent, shape, field) ==
    LET bucketField == toBucketField(field)
        e == ent[bucketField]
        typByte == e.buf.tag
    IN  IF e.e # "flat" THEN reflectMapMsg(ent, bucketField)
        ELSE CASE typByte = "typeString" -> ValResult(NoErr, decodeStringBuffer(e.buf))
               [] typByte = "typeBool" -> ValResult(NoErr, decodeBoolBuffer(e.buf))
               [] typByte = "typeTime" -> ValResult(NoErr, decodeTimeBuffer(e.buf))
               [] typByte = "typeProtobuf" ->
                     IF reflectProtoMsg(shape, field) # NoErr
                     THEN ValResult(reflectProtoMsg(shape, field), Bool(FALSE))
                     ELSE ValResult(NoErr, decodeMessageBuffer(e.buf))
               [] typByte \in IntTags -> ValResult(NoErr, decodeIntBuffer(e.buf, typByte))
               [] typByte \in UintTags -> ValResult(NoErr, decodeUintBuffer(e.buf, typByte))
               [] OTHER -> ValResult(NoErr, NilV)

\* the predicates callers pass: "nil" is the nil function; the others take
\* the name -> value mapping as a set of <<name, value>> pairs
Filters == {"nil", "never", "nameIsX"}
ApplyFilter(filter, fieldValues) ==
    CASE filter = "always" -> TRUE
      [] filter = "never" -> FALSE
      [] OTHER -> <<"Name", Str("x")>> \in fieldValues

\* the mapping matchObject builds: every requested field whose read is not
\* the nil interface
RECURSIVE fieldValuesOf(_, _, _, _)
fieldValuesOf(ent, shape, fields, acc) ==
    IF fields = <<>> THEN [err |-> NoErr, fieldValues |-> acc]
    ELSE LET field == Head(fields)
             r == getFieldObject(ent, shape, field)
         IN  IF r.err # NoErr THEN [err |-> r.err, fieldValues |-> acc]
             ELSE IF r.val = NilV THEN fieldValuesOf(ent, shape, Tail(fields), acc)
             ELSE fieldValuesOf(ent, shape, Tail(fields),
                                {p \in acc : p[1] # field} \cup {<<field, r.val>>})

\* (variant: the predicate is invoked and its verdict dropped)
matchObjectAlways(ent, fields, shape, filter) ==
    IF Len(fields) = 0 THEN [match |-> TRUE, err |-> NoErr, calls |-> <<>>]
    ELSE IF filter = "nil" THEN [match |-> TRUE, err |-> NoErr, calls |-> <<>>]
    ELSE LET fv == fieldValuesOf(ent, shape, fields, {})
         IN  IF fv.err # NoErr THEN [match |-> FALSE, err |-> fv.err, calls |-> <<>>]
             ELSE [match |-> TRUE, err |-> NoErr, calls |-> <<fv.fieldValues>>]

\* matchObject: the verdict, the error, and the mappings the predicate was
\* invoked with (none or one)
matchObject(ent, fields, shape, filter) ==
    IF Len(fields) = 0 THEN [match |-> TRUE, err |-> NoErr, calls |-> <<>>]
    ELSE IF filter = "nil" THEN [match |-> TRUE, err |-> NoErr, calls |-> <<>>]
    ELSE LET fv == fieldValuesOf(ent, shape, fields, {})
         IN  IF fv.err # NoErr THEN [match |-> FALSE, err |-> fv.err, calls |-> <<>>]
             ELSE [match |-> ApplyFilter(filter, fv.fieldValues), err |-> NoErr,
                   calls |-> <<fv.fieldValues>>]

\* (variant: every record is fully deserialized before the predicate is asked)
RECURSIVE filterKeysEager(_, _, _, _, _, _, _)
filterKeysEager(tb, keys, fields, shape, filter, values, calls) ==
    IF keys = <<>> THEN [err |-> NoErr, values |-> values, calls |-> calls]
    ELSE LET key == Head(keys)
             bucket == tb.recs[key]
             r == deserializeObject(bucket.ent, shape)
             m == matchObject(bucket.ent, fields, shape, filter)
             called == calls \o [i \in 1..Len(m.calls) |-> <<key, m.calls[i]>>]
         IN  IF r.err # NoErr THEN [err |-> r.err, values |-> values, calls |-> calls]
             ELSE IF m.err # NoErr THEN [err |-> m.err, values |-> values, calls |-> called]
             ELSE IF ~m.match
             THEN filterKeysEager(tb, Tail(keys), fields, shape, filter, values, called)
             ELSE filterKeysEager(tb, Tail(keys), fields, shape, filter,
                                  [k \in (DOMAIN values) \cup {key} |->
                                      IF k = key THEN r.obj ELSE values[k]],
                                  called)

\* the loop of loadValuesByFilter over the keys of the type bucket
RECURSIVE filterKeys(_, _, _, _, _, _, _)
filterKeys(tb, keys, fields, shape, filter, values, calls) ==
    IF keys = <<>> THEN [err |-> NoErr, values |-> values, calls |-> calls]
    ELSE LET key == Head(keys)
             bucket == tb.recs[key]
             m == matchObject(bucket.ent, fields, shape, filter)
             called == calls \o [i \in 1..Len(m.calls) |-> <<key, m.calls[i]>>]
         IN  IF m.err # NoErr THEN [err |-> m.err, values |-> values, calls |-> called]
             ELSE IF ~m.match
             THEN filterKeys(tb, Tail(keys), fields, shape, filter, values, called)
             ELSE LET r == deserializeObject(bucket.ent, shape)
                  IN  IF r.err # NoErr
                      THEN [err |-> r.err, values |-> values, calls |-> called]
                      ELSE filterKeys(tb, Tail(keys), fields, shape, filter,
                                      [k \in (DOMAIN values) \cup {key} |->
                                          IF k = key THEN r.obj ELSE values[k]],
                                      called)

loadValuesByFilter(d, typ, fields, shape, filter) ==
    IF typ \notin Types \/ ~d[typ].exists
    THEN [err |-> NoErr, values |-> NoValues, calls |-> <<>>]
    ELSE filterKeys(d[typ], getKeys(d[typ]), fields, shape, filter, NoValues, <<>>)

\* the callbacks handed to IterateFields: "nil" is the nil function, "collect"
\* appends what it is handed to a list
Callbacks == {"nil", "collect"}

\* (variant: the callback is spared the fields that read as nil)
RECURSIVE iterateKeysSkipNil(_, _, _, _, _)
iterateKeysSkipNil(tb, keys, field, shape, calls) ==
    IF keys = <<>> THEN [err |-> NoErr, calls |-> calls]
    ELSE LET key == Head(keys)
             r == getFieldObject(tb.recs[key].ent, shape, field)
         IN  IF r.err # NoErr THEN [err |-> r.err, calls |-> calls]
             ELSE IF r.val.isnil
             THEN iterateKeysSkipNil(tb, Tail(keys), field, shape, calls)
             ELSE iterateKeysSkipNil(tb, Tail(keys), field, shape,
                                     Append(calls, <<key, r.val>>))

\* the loop of IterateFields over the keys of the type bucket: the callback
\* is handed the single-field read of every record, until a read fails
RECURSIVE iterateKeys(_, _, _, _, _)
iterateKeys(tb, keys, field, shape, calls) ==
    IF keys = <<>> THEN [err |-> NoErr, calls |-> calls]
    ELSE LET key == Head(keys)
             r == getFieldObject(tb.recs[key].ent, shape, field)
         IN  IF r.err # NoErr THEN [err |-> r.err, calls |-> calls]
             ELSE iterateKeys(tb, Tail(keys), field, shape, Append(calls, <<key, r.val>>))

\* (variant: the nil check comes after the loop over the records)
IterateFieldsNilLate(d, typ, field, shape, filter) ==
    IF typ \notin Types \/ ~d[typ].exists THEN [err |-> NoErr, calls |-> <<>>]
    ELSE iterateKeys(d[typ], getKeys(d[typ]), field, shape, <<>>)

\* IterateFields: the error and the <<key, value>> invocations of the callback
IterateFields(d, typ, field, shape, filter) ==
    IF filter = "nil" THEN [err |-> NoErr, calls |-> <<>>]
    ELSE IF typ \notin Types \/ ~d[typ].exists THEN [err |-> NoErr, calls |-> <<>>]
    ELSE iterateKeys(d[typ], getKeys(d[typ]), field, shape, <<>>)


(***************************************************************************)
(* The inputs callers pass                                                 *)
(***************************************************************************)
\* records handed to SaveValue: one with an empty map, one with a populated
\* one, and one whose map has the empty key, which the engine refuses to put
SaveObjects ==
    { Object("Service", [Name |-> Str("x"), Meta |-> Map({}), ModifyTime |-> Time(1)]),
      Object("Service", [Name |-> Str("y"), Meta |-> Map({<<"k1", "v1">>, <<"k2", "v1">>}),
                         ModifyTime |-> Time(1)]),
      Object("Service", [Name |-> Str("x"), Meta |-> Map({<<"", "v1">>}),
                         ModifyTime |-> Time(1)]) }

\* property maps handed to UpdateValue, as the sequence of <<name, value>>
\* pairs in the order the iteration over the map yields them
SingleProps ==
    { <<"Name", Str("z")>>, <<"Meta", Map({})>>, <<"Meta", Map({<<"k2", "v2">>})>>,
      <<"ModifyTime", Time(2)>>, <<"RegionID", Num("uint32", 8)>>,
      <<"Name", Bool(TRUE)>>, <<"Name", NilV>>, <<"Name", Msg("m")>> }
PairProps ==
    { <<<<"Name", Str("z")>>, <<"Meta", Str("z")>>>>,
      <<<<"RegionID", Float>>, <<"Name", Str("z")>>>> }
PropInputs == {<<>>} \cup {<<p>> : p \in SingleProps} \cup PairProps

\* key slices handed to LoadValues and DeleteValues
KeyLists == {<<>>, <<"Polaris">>, <<"default">>, <<"Polaris", "default">>, <<"default", "Polaris">>}

\* field slices handed to LoadValuesByFilter
FieldLists == {<<>>, <<"Name">>, <<"Name", "Meta">>, <<"RegionID">>}

\* fields handed to IterateFields; the prototype does not declare RegionID
IterFields == {"Name", "Meta", "RegionID"}

(***************************************************************************)
(* The instance store of the relational backend: the table instance, keyed *)
(* by instance id.  A deleted instance keeps its row, with flag set to 1.  *)
(***************************************************************************)
InstanceIDs == {"i1", "i2"}
\* the services of the table service
ServiceIDs == {"svc1"}

NoRow == [present |-> FALSE, flag |-> 0, service_id |-> "", revision |-> ""]
Row(flag, service_id, revision) ==
    [present |-> TRUE, flag |-> flag, service_id |-> service_id, revision |-> revision]
EmptyTable == [id \in InstanceIDs |-> NoRow]

\* the instances callers hand in, and the nil *model.Instance
Instance(id, serviceID, revision) ==
    [id |-> id, serviceID |-> serviceID, revision |-> revision, valid |-> TRUE]
NilInstance == [id |-> "", serviceID |-> "", revision |-> "", valid |-> FALSE]

InsResult(err, tbl) == [err |-> err, tbl |-> tbl]

\* CleanInstance: delete from instance where id = ? and flag = 1
CleanInstance(tbl, id) ==
    IF id \in InstanceIDs /\ tbl[id].present /\ tbl[id].flag = 1
    THEN InsResult(NoErr, [tbl EXCEPT ![id] = NoRow])
    ELSE InsResult(NoErr, tbl)

\* addInstance: one transaction, rolled back unless it commits; the service
\* must be there and the id is the primary key of the table
addInstance(tbl, instance) ==
    IF instance.serviceID \notin ServiceIDs THEN InsResult("NotFoundService", tbl)
    ELSE IF tbl[instance.id].present THEN InsResult("DuplicateEntry", tbl)
    ELSE InsResult(NoErr, [tbl EXCEPT ![instance.id] = Row(0, instance.serviceID, instance.revision)])

\* an id is in a slice of ids, or is the id of an instance of a slice
Listed(objects, id) == \E i \in 1..Len(objects) : objects[i] = id
InstanceNamed(instances, id) == \E i \in 1..Len(instances) : instances[i].id = id

\* BatchClearInstances: delete from instance where flag = 1 and id in (the
\* ids of the instances); nothing is run for an empty slice
BatchClearInstances(tbl, instances) ==
    IF Len(instances) = 0 THEN InsResult(NoErr, tbl)
    ELSE InsResult(NoErr,
            [id \in InstanceIDs |->
                IF tbl[id].present /\ tbl[id].flag = 1 /\ InstanceNamed(instances, id)
                THEN NoRow ELSE tbl[id]])

\* batchAddInstances: one transaction around one insert statement that holds
\* a row for every instance; the statement of an empty slice has no row and
\* is refused, and an id that is in the table, or twice in the slice, is a
\* duplicate key.  No service is looked up.
batchAddInstances(tbl, instances) ==
    IF Len(instances) = 0 THEN InsResult("SyntaxError", tbl)
    ELSE IF \/ \E i \in 1..Len(instances) : tbl[instances[i].id].present
            \/ \E i, j \in 1..Len(instances) : i < j /\ instances[i].id = instances[j].id
    THEN InsResult("DuplicateEntry", tbl)
    ELSE InsResult(NoErr,
            [id \in InstanceIDs |->
                IF InstanceNamed(instances, id)
                THEN LET i == CHOOSE i \in 1..Len(instances) : instances[i].id = id
                     IN  Row(0, instances[i].serviceID, instances[i].revision)
                ELSE tbl[id]])

\* updateInstanceMain inside the transaction of updateInstance: update
\* instance set ..., revision = ? where id = ?, whatever the flag of the row
UpdateInstance(tbl, instance) ==
    IF tbl[instance.id].present
    THEN InsResult(NoErr, [tbl EXCEPT ![instance.id].revision = instance.revision])
    ELSE InsResult(NoErr, tbl)

\* SetInstanceHealthStatus: update instance set health_status = ?,
\* revision = ? where id = ?
SetInstanceHealthStatus(tbl, instanceID, flag, revision) ==
    IF instanceID \in InstanceIDs /\ tbl[instanceID].present
    THEN InsResult(NoErr, [tbl EXCEPT ![instanceID].revision = revision])
    ELSE InsResult(NoErr, tbl)

\* DeleteInstance: update instance set flag = 1 where id = ?
DeleteInstance(tbl, instanceID) ==
    IF instanceID = "" THEN InsResult("Delete Instance Missing instance id", tbl)
    ELSE IF instanceID \in InstanceIDs /\ tbl[instanceID].present
    THEN InsResult(NoErr, [tbl EXCEPT ![instanceID].flag = 1])
    ELSE InsResult(NoErr, tbl)

\* BatchOperation handles at most this many objects at a time
maxCount == 100

\* update instance set flag = 1 where id in (objects)
flagInstances(tbl, objects) ==
    [id \in InstanceIDs |->
        IF tbl[id].present /\ \E i \in 1..Len(objects) : objects[i] = id
        THEN [tbl[id] EXCEPT !.flag = 1] ELSE tbl[id]]

\* BatchDeleteInstances: BatchOperation over the ids, maxCount at a time
RECURSIVE BatchDeleteInstances(_, _)
BatchDeleteInstances(tbl, ids) ==
    IF Len(ids) = 0 THEN InsResult(NoErr, tbl)
    ELSE LET end == IF Len(ids) < maxCount THEN Len(ids) ELSE maxCount
         IN  BatchDeleteInstances(flagInstances(tbl, SubSeq(ids, 1, end)),
                                  SubSeq(ids, end + 1, Len(ids)))

\* update instance set isolate = ?, revision = ? where id in (objects)
isolateInstances(tbl, objects, revision) ==
    [id \in InstanceIDs |->
        IF tbl[id].present /\ Listed(objects, id)
        THEN [tbl[id] EXCEPT !.revision = revision] ELSE tbl[id]]

\* BatchSetInstanceIsolate: BatchOperation over the ids, maxCount at a time
RECURSIVE BatchSetInstanceIsolate(_, _, _, _)
BatchSetInstanceIsolate(tbl, ids, isolate, revision) ==
    IF Len(ids) = 0 THEN InsResult(NoErr, tbl)
    ELSE LET end == IF Len(ids) < maxCount THEN Len(ids) ELSE maxCount
         IN  BatchSetInstanceIsolate(isolateInstances(tbl, SubSeq(ids, 1, end), revision),
                                     SubSeq(ids, end + 1, Len(ids)), isolate, revision)

\* Store2Instance: the instance of a row; it is valid unless flagged
Store2Instance(id, row) ==
    [id |-> id, serviceID |-> row.service_id, revision |-> row.revision,
     valid |-> row.flag = 0]

\* getInstance: the row of the id, whatever its flag
getInstance(tbl, instanceID) ==
    IF instanceID \in InstanceIDs /\ tbl[instanceID].present
    THEN [err |-> NoErr, isnil |-> FALSE, ins |-> Store2Instance(instanceID, tbl[instanceID])]
    ELSE [err |-> NoErr, isnil |-> TRUE, ins |-> NilInstance]

\* (variant: the instance is returned whether valid or not)
GetInstanceAny(tbl, instanceID) == getInstance(tbl, instanceID)

\* GetInstance: only a valid instance is returned
GetInstance(tbl, instanceID) ==
    LET r == getInstance(tbl, instanceID)
    IN  IF ~r.isnil /\ ~r.ins.valid
        THEN [err |-> NoErr, isnil |-> TRUE, ins |-> NilInstance]
        ELSE r

\* the ids callers ask CheckInstancesExisted about; a map[string]bool is a
\* function from its keys to BOOLEAN
CheckIDs == InstanceIDs \cup {"test-not-exist"}
IdMaps ==
    {[k \in S |-> b] : S \in {{}, {"i1"}, {"i1", "i2"}, {"i1", "test-not-exist"}},
                       b \in BOOLEAN}
NoIds == [k \in {} |-> FALSE]

\* CheckInstancesExisted: select id from instance where flag = 0 and id in
\* (the keys); every id found is set to true in the map handed in, and that
\* map is returned
CheckInstancesExisted(tbl, ids) ==
    IF DOMAIN ids = {} THEN [err |-> NoErr, isnil |-> TRUE, ids |-> NoIds]
    ELSE [err |-> NoErr, isnil |-> FALSE,
          ids |-> [k \in DOMAIN ids |->
                     IF k \in InstanceIDs /\ tbl[k].present /\ tbl[k].flag = 0
                     THEN TRUE ELSE ids[k]]]

\* what callers pass to the instance store
InstanceInputs ==
    {Instance(id, "svc1", "r1") : id \in InstanceIDs}
    \cup {Instance("i1", "svc1", "r2"), Instance("i1", "no-svc", "r1")}
IdLists == {<<>>, <<"i1">>, <<"i2", "i1">>, <<"i1", "test-not-exist">>}

(***************************************************************************)
(* The handler calls.  A run is a sequence of write transactions; a read   *)
(* leaves the store as it is, so a run is followed up to its first read.   *)
(***************************************************************************)
NoCall == [op |-> "none"]

\* what a goroutine with no transaction open sees of the store
NoSnapshot == <<>>
\* a goroutine with no transaction open
IdleW == [st |-> "idle", call |-> NoCall, base |-> NoSnapshot, done |-> 0]
IdleR == [st |-> "idle", call |-> NoCall, snap |-> NoSnapshot, keys |-> <<>>,
          phase |-> "read", err |-> NoErr, values |-> NoValues, calls |-> <<>>]

\* the record bucket a write call finds under its key when it begins
Before(d, typ, key) == IF key \in Keys THEN d[typ].recs[key] ELSE NoRecord
\* the keys of the slice that have a record bucket when the call begins
Existing(d, typ, keys) == {k \in Keys : HasRecord(d, typ, k) /\ \E i \in 1..Len(keys) : keys[i] = k}
WriteOps ==
    {"none", "SaveValue", "UpdateValue", "DeleteValues", "Execute",
     "InitData", "AddNamespace", "UpdateNamespace", "UpdateNamespaceToken"}

Init ==
    /\ db = EmptyDB
    /\ last = NoCall
    /\ nops = 0
    /\ wtx = [w \in Writers |-> IdleW]
    /\ rtx = [r \in Readers |-> IdleR]
    /\ committed = {}
    /\ serial = NoSnapshot
    /\ master = EmptyTable
    /\ running = [c \in Callers |-> NoCall]

SaveValue ==
    \E typ \in Types, key \in KeyInputs, value \in SaveObjects :
        LET res == SaveValueTx(db, typ, key, value)
        IN  /\ last.op \in WriteOps
            /\ nops < MaxOps
            /\ db' = Update(db, res)
            /\ last' = [op |-> "SaveValue", typ |-> typ, key |-> key, value |-> value,
                        err |-> res.err, before |-> Before(db, typ, key)]
            /\ nops' = nops + 1
            /\ UNCHANGED <<txvars, master, running>>

UpdateValue ==
    \E typ \in Types, key \in Keys, props \in PropInputs :
        LET res == UpdateValueTx(db, typ, key, props)
        IN  /\ last.op \in WriteOps
            /\ nops < MaxOps
            /\ db' = Update(db, res)
            /\ last' = [op |-> "UpdateValue", typ |-> typ, key |-> key, props |-> props,
                        err |-> res.err, before |-> Before(db, typ, key)]
            /\ nops' = nops + 1
            /\ UNCHANGED <<txvars, master, running>>

DeleteValuesCall ==
    \E typ \in Types, keys \in KeyLists :
        LET res == DeleteValuesTx(db, typ, keys)
        IN  /\ last.op \in WriteOps
            /\ nops < MaxOps
            /\ db' = Update(db, res)
            /\ last' = [op |-> "DeleteValues", typ |-> typ, keys |-> keys,
                        err |-> res.err, existed |-> Existing(db, typ, keys)]
            /\ nops' = nops + 1
            /\ UNCHANGED <<txvars, master, running>>

LoadValuesCall ==
    \E typ \in ReadTypes, keys \in KeyLists, shape \in Shapes :
        LET res == LoadValues(db, typ, keys, shape)
        IN  /\ last.op \in WriteOps
            /\ last' = [op |-> "LoadValues", typ |-> typ, keys |-> keys, shape |-> shape,
                        err |-> res.err, values |-> res.values]
            /\ UNCHANGED <<db, nops, wtx, rtx, committed, serial, master, running>>

LoadValuesAllCall ==
    \E typ \in ReadTypes, shape \in Shapes :
        LET res == LoadValuesAll(db, typ, shape)
        IN  /\ last.op \in WriteOps
            /\ last' = [op |-> "LoadValuesAll", typ |-> typ, shape |-> shape,
                        err |-> res.err, values |-> res.values]
            /\ UNCHANGED <<db, nops, wtx, rtx, committed, serial, master, running>>

LoadValuesByFilterCall ==
    \E typ \in ReadTypes, fields \in FieldLists, shape \in {"Service"}, filter \in Filters :
        LET res == loadValuesByFilter(db, typ, fields, shape, filter)
        IN  /\ last.op \in WriteOps
            /\ last' = [op |-> "LoadValuesByFilter", typ |-> typ, fields |-> fields,
                        shape |-> shape, filter |-> filter,
                        err |-> res.err, values |-> res.values, calls |-> res.calls]
            /\ UNCHANGED <<db, nops, wtx, rtx, committed, serial, master, running>>

CountValuesCall ==
    \E typ \in ReadTypes :
        /\ last.op \in WriteOps
        /\ last' = [op |-> "CountValues", typ |-> typ, count |-> CountValues(db, typ),
                    err |-> NoErr]
        /\ UNCHANGED <<db, nops, wtx, rtx, committed, serial, master, running>>

IterateFieldsCall ==
    \E typ \in ReadTypes, field \in IterFields, filter \in Callbacks :
        LET res == IterateFields(db, typ, field, "Service", filter)
        IN  /\ last.op \in WriteOps
            /\ last' = [op |-> "IterateFields", typ |-> typ, field |-> field,
                        shape |-> "Service", filter |-> filter,
                        err |-> res.err, calls |-> res.calls]
            /\ UNCHANGED <<db, nops, wtx, rtx, committed, serial, master, running>>

Next ==
    \/ SaveValue
    \/ UpdateValue
    \/ DeleteValuesCall
    \/ LoadValuesCall
    \/ LoadValuesAllCall
    \/ LoadValuesByFilterCall
    \/ CountValuesCall
    \/ IterateFieldsCall

Spec == Init /\ [][Next]_vars


(***************************************************************************)
(* Concurrent transactions.  Every handler call runs inside db.Update or   *)
(* db.View.  The engine admits one write transaction at a time and commits *)
(* it as a whole; a read transaction sees the store as committed when it   *)
(* began, whatever is committed while it runs.  A reader takes one step    *)
(* per record, so that commits interleave with its loop.                   *)
(***************************************************************************)
RecX == Object("Service", [Name |-> Str("x"), Meta |-> Map({}), ModifyTime |-> Time(1)])

\* the functions callers hand to Execute(true, process)
\*   saveBoth      saves RecX under service/Polaris and service/default
\*   saveThenFail  saves RecX under service/Polaris, then returns an error
\*   saveTwoTypes  saves RecX under service/Polaris and namespace/default
\*   putNewTag     puts, under the name key of the record service/Polaris (if there
\*                 is one), a flat entry whose tag byte no decoder knows
Processes == {"saveBoth", "saveThenFail", "saveTwoTypes", "putNewTag"}
NewTagBuf == Buffer("typeNew", "q", 0)
RunProcess(process, d) ==
    LET r1 == SaveValueTx(d, "service", "Polaris", RecX)
    IN  IF process = "putNewTag"
        THEN IF ~HasRecord(d, "service", "Polaris") THEN TxResult(NoErr, d)
             ELSE LET p == Put(d["service"].recs["Polaris"].ent, toBucketField("Name"), NewTagBuf)
                  IN  TxResult(p.err, [d EXCEPT !["service"].recs["Polaris"].ent = p.ent])
        ELSE IF process = "saveThenFail" THEN TxResult("process failed", r1.db)
        ELSE IF r1.err # NoErr THEN r1
        ELSE IF process = "saveTwoTypes" THEN SaveValueTx(r1.db, "namespace", "default", RecX)
        ELSE SaveValueTx(r1.db, "service", "default", RecX)

\* the same functions run in a read transaction: the engine refuses every
\* write with ErrTxNotWritable and the store stays as it is
RunProcessView(process, d) ==
    IF process = "putNewTag"
    THEN IF ~HasRecord(d, "service", "Polaris") THEN TxResult(NoErr, d)
         ELSE TxResult("ErrTxNotWritable", d)
    ELSE IF process = "saveThenFail" THEN TxResult("process failed", d)
    ELSE TxResult("ErrTxNotWritable", d)

\* (variant: the function is always handed to db.Update)
ExecuteAlwaysUpdate(d, writable, process) ==
    LET res == RunProcess(process, d)
    IN  TxResult(res.err, Update(d, res))

\* Execute: the error it returns and the store it leaves
Execute(d, writable, process) ==
    IF writable
    THEN LET res == RunProcess(process, d)
         IN  TxResult(res.err, Update(d, res))
    ELSE TxResult(RunProcessView(process, d).err, d)

\* the write calls of the concurrent runs
WCalls ==
    { [op |-> "SaveValue", typ |-> "service", key |-> "Polaris", value |-> RecX],
      [op |-> "SaveValue", typ |-> "service", key |-> "default", value |-> RecX],
      [op |-> "UpdateValue", typ |-> "service", key |-> "Polaris", props |-> <<<<"Name", Str("z")>>>>],
      [op |-> "UpdateValue", typ |-> "service", key |-> "default", props |-> <<<<"Name", Str("z")>>>>],
      [op |-> "DeleteValues", typ |-> "service", keys |-> <<"Polaris">>],
      [op |-> "Execute", process |-> "saveBoth"],
      [op |-> "Execute", process |-> "saveThenFail"] }

\* the function a write call runs inside its db.Update
RunTx(d, call) ==
    CASE call.op = "SaveValue" -> SaveValueTx(d, call.typ, call.key, call.value)
      [] call.op = "UpdateValue" -> UpdateValueTx(d, call.typ, call.key, call.props)
      [] call.op = "DeleteValues" -> DeleteValuesTx(d, call.typ, call.keys)
      [] OTHER -> RunProcess(call.process, d)

\* the read calls of the concurrent runs
RCalls ==
    { [op |-> "LoadValues", typ |-> "service", keys |-> <<"Polaris", "default">>, shape |-> "Service"],
      [op |-> "LoadValuesAll", typ |-> "service", shape |-> "Service"],
      [op |-> "LoadValuesByFilter", typ |-> "service", fields |-> <<"Name">>,
       shape |-> "Service", filter |-> "nameIsX"],
      [op |-> "LoadValuesByFilter", typ |-> "service", fields |-> <<>>,
       shape |-> "Service", filter |-> "never"],
      [op |-> "IterateFields", typ |-> "service", field |-> "Name",
       shape |-> "Service", filter |-> "collect"] }

\* (variant: write transactions begin without waiting for one another)
WriterFreeAlways(w) == TRUE

\* the engine's writer lock: no write transaction is open
WriterFree(w) == \A x \in Writers : w[x].st # "open"

\* (variant: every key is loaded in a read transaction of its own)
loadViewPerKey(snap, d) == d

\* LoadValues and LoadValuesAll run their whole loop over the keys inside one
\* db.View: every key is read from the transaction's snapshot
loadView(snap, d) == snap

\* (variant: the full deserialize runs in a second read transaction)
decodeViewFresh(snap, d) == d

\* loadValuesByFilter hands the transaction of the partial read to the full
\* deserialize as well
decodeView(snap, d) == snap

\* db.Update begins: the writer waits for the lock and sees the committed store
BeginWrite(w) ==
    \E call \in WCalls :
        /\ wtx[w].st = "idle"
        /\ WriterFree(wtx)
        /\ nops < MaxCommits
        /\ wtx' = [wtx EXCEPT ![w] = [@ EXCEPT !.st = "open", !.call = call, !.base = db]]
        /\ nops' = nops + 1
        /\ UNCHANGED <<db, last, rtx, committed, serial, master, running>>

\* db.Update ends: the function has run on the store the transaction began
\* with; its writes are committed together, or dropped when it failed
CommitWrite(w) ==
    /\ wtx[w].st = "open"
    /\ db' = Update(db, RunTx(wtx[w].base, wtx[w].call))
    /\ serial' = Update(serial, RunTx(serial, wtx[w].call))
    /\ committed' = committed \cup {db'}
    /\ wtx' = [wtx EXCEPT ![w] = [IdleW EXCEPT !.done = wtx[w].done + 1]]
    /\ UNCHANGED <<last, nops, rtx, master, running>>

\* db.View begins: the snapshot is the store as committed now; the loops over
\* a type bucket take their keys from getKeys
BeginRead(r) ==
    \E call \in RCalls :
        /\ rtx[r].st = "idle"
        /\ rtx' = [rtx EXCEPT ![r] =
                      [IdleR EXCEPT !.st = "open", !.call = call, !.snap = db,
                                    !.keys = IF call.op = "LoadValues" THEN call.keys
                                             ELSE IF db[call.typ].exists
                                             THEN getKeys(db[call.typ]) ELSE <<>>,
                                    !.phase = IF call.op = "LoadValuesByFilter"
                                              THEN "match" ELSE "read"]]
        /\ UNCHANGED <<db, last, nops, wtx, committed, serial, master, running>>

\* one turn of the loop of loadValues / LoadValuesAll
LoadStep(r) ==
    /\ rtx[r].st = "open" /\ rtx[r].keys # <<>>
    /\ rtx[r].call.op \in {"LoadValues", "LoadValuesAll"}
    /\ LET c == rtx[r].call
           res == loadValues(loadView(rtx[r].snap, db), c.typ, <<Head(rtx[r].keys)>>,
                             c.shape, rtx[r].values)
       IN  rtx' = [rtx EXCEPT ![r] =
                      [@ EXCEPT !.values = res.values, !.err = res.err,
                                !.keys = Tail(rtx[r].keys),
                                !.st = IF res.err # NoErr THEN "done" ELSE "open"]]
    /\ UNCHANGED <<db, last, nops, wtx, committed, serial, master, running>>

\* one turn of the loop of loadValuesByFilter, first half: matchObject
MatchStep(r) ==
    /\ rtx[r].st = "open" /\ rtx[r].keys # <<>>
    /\ rtx[r].call.op = "LoadValuesByFilter" /\ rtx[r].phase = "match"
    /\ LET c == rtx[r].call
           key == Head(rtx[r].keys)
           bucket == getBucket(rtx[r].snap, c.typ, key)
           m == matchObject(bucket.ent, c.fields, c.shape, c.filter)
           called == rtx[r].calls \o [i \in 1..Len(m.calls) |-> <<key, m.calls[i]>>]
       IN  rtx' = [rtx EXCEPT ![r] =
                      IF ~bucket.present THEN [@ EXCEPT !.keys = Tail(rtx[r].keys)]
                      ELSE IF m.err # NoErr
                      THEN [@ EXCEPT !.err = m.err, !.st = "done", !.calls = called]
                      ELSE IF ~m.match
                      THEN [@ EXCEPT !.keys = Tail(rtx[r].keys), !.calls = called]
                      ELSE [@ EXCEPT !.phase = "decode", !.calls = called]]
    /\ UNCHANGED <<db, last, nops, wtx, committed, serial, master, running>>

\* second half: the full deserialize of a record the predicate accepted
DecodeStep(r) ==
    /\ rtx[r].st = "open" /\ rtx[r].keys # <<>>
    /\ rtx[r].call.op = "LoadValuesByFilter" /\ rtx[r].phase = "decode"
    /\ LET c == rtx[r].call
           key == Head(rtx[r].keys)
           bucket == getBucket(decodeView(rtx[r].snap, db), c.typ, key)
           res == deserializeObject(bucket.ent, c.shape)
       IN  rtx' = [rtx EXCEPT ![r] =
                      IF res.err # NoErr THEN [@ EXCEPT !.err = res.err, !.st = "done"]
                      ELSE [@ EXCEPT !.keys = Tail(rtx[r].keys), !.phase = "match",
                                     !.values = [k \in (DOMAIN rtx[r].values) \cup {key} |->
                                                    IF k = key THEN res.obj
                                                    ELSE rtx[r].values[k]]]]
    /\ UNCHANGED <<db, last, nops, wtx, committed, serial, master, running>>

\* one turn of the loop of IterateFields
IterateStep(r) ==
    /\ rtx[r].st = "open" /\ rtx[r].keys # <<>>
    /\ rtx[r].call.op = "IterateFields"
    /\ LET c == rtx[r].call
           res == iterateKeys(rtx[r].snap[c.typ], <<Head(rtx[r].keys)>>, c.field, c.shape,
                              rtx[r].calls)
       IN  rtx' = [rtx EXCEPT ![r] =
                      [@ EXCEPT !.calls = res.calls, !.err = res.err,
                                !.keys = Tail(rtx[r].keys),
                                !.st = IF res.err # NoErr THEN "done" ELSE "open"]]
    /\ UNCHANGED <<db, last, nops, wtx, committed, serial, master, running>>

\* db.View ends: the loop is through and the call returns
EndRead(r) ==
    /\ rtx[r].st = "open" /\ rtx[r].keys = <<>>
    /\ rtx' = [rtx EXCEPT ![r].st = "done"]
    /\ UNCHANGED <<db, last, nops, wtx, committed, serial, master, running>>

NextTx ==
    \/ \E w \in Writers : BeginWrite(w)
    \/ \E w \in Writers : CommitWrite(w)
    \/ \E r \in Readers : BeginRead(r)
    \/ \E r \in Readers : LoadStep(r)
    \/ \E r \in Readers : MatchStep(r)
    \/ \E r \in Readers : DecodeStep(r)
    \/ \E r \in Readers : IterateStep(r)
    \/ \E r \in Readers : EndRead(r)

\* a concurrent run starts on the empty store, which counts as committed
InitTx ==
    /\ db = EmptyDB
    /\ last = NoCall
    /\ nops = 0
    /\ wtx = [w \in Writers |-> IdleW]
    /\ rtx = [r \in Readers |-> IdleR]
    /\ committed = {EmptyDB}
    /\ serial = EmptyDB
    /\ master = EmptyTable
    /\ running = [c \in Callers |-> NoCall]

SpecTx == InitTx /\ [][NextTx]_vars


(***************************************************************************)
(* The raw transaction escape.  A run of Execute and DeleteValues calls,   *)
(* followed up to its first read.                                          *)
(***************************************************************************)
ExecuteCall ==
    \E writable \in BOOLEAN, process \in Processes :
        LET res == Execute(db, writable, process)
        IN  /\ last.op \in WriteOps
            /\ nops < MaxOps
            /\ db' = res.db
            /\ last' = [op |-> "Execute", writable |-> writable, process |-> process,
                        err |-> res.err]
            /\ nops' = nops + 1
            /\ UNCHANGED <<txvars, master, running>>

NextExec ==
    \/ ExecuteCall
    \/ DeleteValuesCall
    \/ LoadValuesByFilterCall
    \/ IterateFieldsCall

SpecExec == Init /\ [][NextExec]_vars


(***************************************************************************)
(* The calls of the instance store.  A run is a sequence of statements and *)
(* transactions on the table, followed up to its first read.  AddInstance  *)
(* and BatchAddInstances run a statement and then a transaction; what the  *)
(* other callers commit between the two is in the table the second finds.  *)
(***************************************************************************)
InsWriteOps ==
    {"none", "AddInstance", "BatchAddInstances", "BatchClearInstances", "UpdateInstance",
     "CleanInstance", "DeleteInstance", "BatchDeleteInstances", "SetInstanceHealthStatus",
     "BatchSetInstanceIsolate"}

\* number of statements and transactions on the table in a run
MaxInsOps == 5

\* slices of instances handed to BatchAddInstances and BatchClearInstances
InstanceLists ==
    {<<>>, <<Instance("i1", "svc1", "r1")>>,
     <<Instance("i2", "no-svc", "r2"), Instance("i1", "svc1", "r1")>>,
     <<Instance("i1", "svc1", "r1"), Instance("i1", "svc1", "r2")>>}
\* the revision an update hands in
Revisions == {"r9"}

\* AddInstance, first statement: CleanInstance, committed on its own; the
\* caller then goes on to the transaction of addInstance
AddInstanceClean(c) ==
    \E instance \in InstanceInputs :
        LET res == CleanInstance(master, instance.id)
        IN  /\ last.op \in InsWriteOps
            /\ nops < MaxInsOps
            /\ running[c] = NoCall
            /\ master' = res.tbl
            /\ running' = [running EXCEPT ![c] =
                              IF res.err # NoErr THEN NoCall
                              ELSE [op |-> "AddInstance", instance |-> instance]]
            /\ last' = [op |-> "AddInstance", caller |-> c, instance |-> instance,
                        err |-> res.err, returned |-> res.err # NoErr]
            /\ nops' = nops + 1
            /\ UNCHANGED <<db, txvars>>

\* AddInstance, second step: the transaction of addInstance, on the table as
\* the other callers have left it meanwhile
AddInstanceInsert(c) ==
    LET res == addInstance(master, running[c].instance)
    IN  /\ last.op \in InsWriteOps
        /\ nops < MaxInsOps
        /\ running[c].op = "AddInstance"
        /\ master' = res.tbl
        /\ running' = [running EXCEPT ![c] = NoCall]
        /\ last' = [op |-> "AddInstance", caller |-> c, instance |-> running[c].instance,
                    err |-> res.err, returned |-> TRUE]
        /\ nops' = nops + 1
        /\ UNCHANGED <<db, txvars>>

\* BatchAddInstances, first statement: BatchClearInstances
BatchAddInstancesClear(c) ==
    \E instances \in InstanceLists :
        LET res == BatchClearInstances(master, instances)
        IN  /\ last.op \in InsWriteOps
            /\ nops < MaxInsOps
            /\ running[c] = NoCall
            /\ master' = res.tbl
            /\ running' = [running EXCEPT ![c] =
                              IF res.err # NoErr THEN NoCall
                              ELSE [op |-> "BatchAddInstances", instances |-> instances]]
            /\ last' = [op |-> "BatchAddInstances", caller |-> c, instances |-> instances,
                        err |-> res.err, returned |-> res.err # NoErr]
            /\ nops' = nops + 1
            /\ UNCHANGED <<db, txvars>>

\* BatchAddInstances, second step: the transaction of batchAddInstances
BatchAddInstancesInsert(c) ==
    LET res == batchAddInstances(master, running[c].instances)
    IN  /\ last.op \in InsWriteOps
        /\ nops < MaxInsOps
        /\ running[c].op = "BatchAddInstances"
        /\ master' = res.tbl
        /\ running' = [running EXCEPT ![c] = NoCall]
        /\ last' = [op |-> "BatchAddInstances", caller |-> c,
                    instances |-> running[c].instances, err |-> res.err, returned |-> TRUE]
        /\ nops' = nops + 1
        /\ UNCHANGED <<db, txvars>>

BatchClearInstancesCall ==
    \E instances \in InstanceLists :
        LET res == BatchClearInstances(master, instances)
        IN  /\ last.op \in InsWriteOps
            /\ nops < MaxInsOps
            /\ master' = res.tbl
            /\ last' = [op |-> "BatchClearInstances", instances |-> instances,
                        err |-> res.err, returned |-> TRUE]
            /\ nops' = nops + 1
            /\ UNCHANGED <<db, txvars, running>>

UpdateInstanceCall ==
    \E id \in InstanceIDs, revision \in Revisions :
        LET res == UpdateInstance(master, Instance(id, "svc1", revision))
        IN  /\ last.op \in InsWriteOps
            /\ nops < MaxInsOps
            /\ master' = res.tbl
            /\ last' = [op |-> "UpdateInstance", instance |-> Instance(id, "svc1", revision),
                        err |-> res.err, returned |-> TRUE]
            /\ nops' = nops + 1
            /\ UNCHANGED <<db, txvars, running>>

CleanInstanceCall ==
    \E id \in CheckIDs :
        LET res == CleanInstance(master, id)
        IN  /\ last.op \in InsWriteOps
            /\ nops < MaxInsOps
            /\ master' = res.tbl
            /\ last' = [op |-> "CleanInstance", id |-> id, err |-> res.err, returned |-> TRUE]
            /\ nops' = nops + 1
            /\ UNCHANGED <<db, txvars, running>>

DeleteInstanceCall ==
    \E id \in CheckIDs \cup {""} :
        LET res == DeleteInstance(master, id)
        IN  /\ last.op \in InsWriteOps
            /\ nops < MaxInsOps
            /\ master' = res.tbl
            /\ last' = [op |-> "DeleteInstance", id |-> id, err |-> res.err,
                        existed |-> {k \in InstanceIDs : k = id /\ master[k].present},
                        returned |-> TRUE]
            /\ nops' = nops + 1
            /\ UNCHANGED <<db, txvars, running>>

BatchDeleteInstancesCall ==
    \E ids \in IdLists :
        LET res == BatchDeleteInstances(master, ids)
        IN  /\ last.op \in InsWriteOps
            /\ nops < MaxInsOps
            /\ master' = res.tbl
            /\ last' = [op |-> "BatchDeleteInstances", ids |-> ids, err |-> res.err,
                        existed |-> {k \in InstanceIDs : master[k].present
                                        /\ \E i \in 1..Len(ids) : ids[i] = k},
                        returned |-> TRUE]
            /\ nops' = nops + 1
            /\ UNCHANGED <<db, txvars, running>>

SetInstanceHealthStatusCall ==
    \E id \in CheckIDs, revision \in Revisions :
        LET res == SetInstanceHealthStatus(master, id, 1, revision)
        IN  /\ last.op \in InsWriteOps
            /\ nops < MaxInsOps
            /\ master' = res.tbl
            /\ last' = [op |-> "SetInstanceHealthStatus", id |-> id, revision |-> revision,
                        err |-> res.err, returned |-> TRUE]
            /\ nops' = nops + 1
            /\ UNCHANGED <<db, txvars, running>>

BatchSetInstanceIsolateCall ==
    \E ids \in IdLists, revision \in Revisions :
        LET res == BatchSetInstanceIsolate(master, ids, 1, revision)
        IN  /\ last.op \in InsWriteOps
            /\ nops < MaxInsOps
            /\ master' = res.tbl
            /\ last' = [op |-> "BatchSetInstanceIsolate", ids |-> ids,
                        revision |-> revision, err |-> res.err, returned |-> TRUE]
            /\ nops' = nops + 1
            /\ UNCHANGED <<db, txvars, running>>

GetInstanceCall ==
    \E id \in CheckIDs :
        LET res == GetInstance(master, id)
        IN  /\ last.op \in InsWriteOps
            /\ last' = [op |-> "GetInstance", id |-> id, err |-> res.err,
                        isnil |-> res.isnil, ins |-> res.ins, prev |-> last]
            /\ UNCHANGED <<db, nops, txvars, master, running>>

CheckInstancesExistedCall ==
    \E ids \in IdMaps :
        LET res == CheckInstancesExisted(master, ids)
        IN  /\ last.op \in InsWriteOps
            /\ last' = [op |-> "CheckInstancesExisted", ids |-> ids, err |-> res.err,
                        isnil |-> res.isnil, result |-> res.ids]
            /\ UNCHANGED <<db, nops, txvars, master, running>>

NextIns ==
    \/ \E c \in Callers : AddInstanceClean(c)
    \/ \E c \in Callers : AddInstanceInsert(c)
    \/ \E c \in Callers : BatchAddInstancesClear(c)
    \/ \E c \in Callers : BatchAddInstancesInsert(c)
    \/ BatchClearInstancesCall
    \/ UpdateInstanceCall
    \/ CleanInstanceCall
    \/ DeleteInstanceCall
    \/ BatchDeleteInstancesCall
    \/ SetInstanceHealthStatusCall
    \/ BatchSetInstanceIsolateCall
    \/ GetInstanceCall
    \/ CheckInstancesExistedCall

SpecIns == Init /\ [][NextIns]_vars


(***************************************************************************)
(* Retry of the relational backend: a handle is run again after an error   *)
(* the database recovers from.  An error is its message; a handle is given *)
(* by what its invocations return, one after the other.  Retry keeps       *)
(* nothing from one call to the next, so a run is one call.                *)
(***************************************************************************)
\* strings.Contains: substr occurs in s as a run of consecutive bytes
Contains(s, substr) ==
    \E i \in 0..(Len(s) - Len(substr)) : SubSeq(s, i + 1, i + Len(substr)) = substr

\* the messages of the errors that are retried
errMsg == <<"Deadlock", "bad connection", "invalid connection">>

\* Retry tries at most this many times
maxTryTimes == 20

\* number of failing invocations a handle starts with, at most
MaxFails == 21

\* what the i-th invocation of a handle returns: the script of the handle
\* gives its first returns, and the last of them is returned ever after
invoke(handle, i) == IF i < Len(handle) THEN handle[i] ELSE handle[Len(handle)]

\* the inner loop of Retry: the error holds one of the messages of errMsg
repeatedAlways(err) == TRUE

repeated(err) == \E k \in 1..Len(errMsg) : Contains(err, errMsg[k])

\* the loop of Retry from try i on; calls holds what the invocations so far
\* returned.  Between two tries the loop sleeps 5ms times i.
RECURSIVE retryLoopShort(_, _, _)
retryLoopShort(handle, i, calls) ==
    IF i >= maxTryTimes THEN calls
    ELSE LET err == invoke(handle, i)
         IN  IF err = NoErr THEN Append(calls, err)
             ELSE IF ~repeated(err) THEN Append(calls, err)
             ELSE retryLoopShort(handle, i + 1, Append(calls, err))

RECURSIVE retryLoop(_, _, _)
retryLoop(handle, i, calls) ==
    IF i > maxTryTimes THEN calls
    ELSE LET err == invoke(handle, i)
         IN  IF err = NoErr THEN Append(calls, err)
             ELSE IF ~repeated(err) THEN Append(calls, err)
             ELSE retryLoop(handle, i + 1, Append(calls, err))

\* Retry returns nothing; its effect is the invocations of handle it makes
Retry(label, handle) == retryLoop(handle, 1, <<>>)

\* RetryTransaction keeps the error of each invocation in err and returns
\* what err holds when Retry is back
RetryTransaction(label, handle) ==
    LET calls == Retry(label, handle)
    IN  [calls |-> calls, err |-> IF calls = <<>> THEN NoErr ELSE calls[Len(calls)]]

\* errors a database call returns that are retried, and errors that are not
RetriedErrors ==
    {"Error 1213: Deadlock found when trying to get lock", "driver: bad connection",
     "invalid connection"}
OtherErrors ==
    {"Error 1062: Duplicate entry", "deadlock detected", "bad idle connection", ""}
\* the labels callers pass, for the log
Labels == {"begin"}

\* handles: n failures that are retried, all of one error or of the three
\* in turn, followed by a success, by another error or by the same again
Handles ==
    { [i \in 1..(n + 1) |-> IF i <= n THEN e ELSE t] :
        n \in 0..MaxFails, e \in RetriedErrors, t \in {NoErr} \cup OtherErrors \cup RetriedErrors }
    \cup
    { [i \in 1..(n + 1) |->
          IF i > n THEN t
          ELSE IF i % 3 = 0 THEN "invalid connection"
          ELSE IF i % 3 = 1 THEN "driver: bad connection"
          ELSE "Error 1213: Deadlock found when trying to get lock"] :
        n \in 0..MaxFails, t \in {NoErr} \cup OtherErrors }

RetryCall ==
    \E label \in Labels, handle \in Handles :
        /\ last = NoCall
        /\ last' = [op |-> "Retry", handle |-> handle, calls |-> Retry(label, handle)]
        /\ UNCHANGED <<db, nops, txvars, master, running>>

RetryTransactionCall ==
    \E label \in Labels, handle \in Handles :
        LET res == RetryTransaction(label, handle)
        IN  /\ last = NoCall
            /\ last' = [op |-> "RetryTransaction", handle |-> handle, calls |-> res.calls,
                        err |-> res.err]
            /\ UNCHANGED <<db, nops, txvars, master, running>>

NextRetry ==
    \/ RetryCall
    \/ RetryTransactionCall

SpecRetry == Init /\ [][NextRetry]_vars


(***************************************************************************)
(* BatchQuery and BatchOperation of the relational backend: a handler is   *)
(* run on a slice of objects a piece at a time.  Neither keeps anything    *)
(* from one call to the next, so a run is one call.                        *)
(***************************************************************************)
\* length of the longest slice handed in
MaxData == 401

\* a []interface{}: nil, or the objects it holds
Slice(isnil, elems) == [isnil |-> isnil, elems |-> elems]
NilSlice == Slice(TRUE, <<>>)
\* data[beg:end], with the indices of the code
Cut(data, beg, end) == SubSeq(data.elems, beg + 1, end)

\* the slices handed in: nil, and the objects 1..n in this order
DataInputs == {NilSlice} \cup {Slice(FALSE, [i \in 1..n |-> i]) : n \in 0..MaxData}

\* a handler, by the object it fails on (0: it never fails)
BatchHandlers == {[bad |-> e] : e \in {0, 1, 100, 150, 200, 201, 250, 401}}
\* what the handler returns for a piece
handler(h, objects) ==
    IF \E i \in 1..Len(objects) : objects[i] = h.bad THEN "handler failed" ELSE NoErr

\* what a batch call made of its handler, and what it returned
BatchResult(err, calls) == [err |-> err, calls |-> calls]

\* BatchQuery handles at most this many objects at a time
maxCountQuery == 200

\* the loop of BatchQuery
RECURSIVE batchQueryLoopDropTail(_, _, _, _, _)
batchQueryLoopDropTail(data, h, beg, remain, calls) ==
    IF remain > maxCountQuery
    THEN LET objects == Cut(data, beg, beg + maxCountQuery)
         IN  IF handler(h, objects) # NoErr
             THEN BatchResult(handler(h, objects), Append(calls, objects))
             ELSE batchQueryLoopDropTail(data, h, beg + maxCountQuery, remain - maxCountQuery,
                                         Append(calls, objects))
    ELSE BatchResult(NoErr, calls)

RECURSIVE batchQueryLoop(_, _, _, _, _)
batchQueryLoop(data, h, beg, remain, calls) ==
    IF remain > maxCountQuery
    THEN LET objects == Cut(data, beg, beg + maxCountQuery)
         IN  IF handler(h, objects) # NoErr
             THEN BatchResult(handler(h, objects), Append(calls, objects))
             ELSE batchQueryLoop(data, h, beg + maxCountQuery, remain - maxCountQuery,
                                 Append(calls, objects))
    ELSE LET objects == Cut(data, beg, beg + remain)
         IN  BatchResult(handler(h, objects), Append(calls, objects))

BatchQuery(label, data, h) ==
    IF Len(data.elems) = 0 THEN BatchResult(NoErr, <<>>)
    ELSE batchQueryLoop(data, h, 0, Len(data.elems), <<>>)

\* the loop of BatchOperation
RECURSIVE batchOperationLoopGoOn(_, _, _, _)
batchOperationLoopGoOn(data, h, begin, calls) ==
    IF begin < Len(data.elems)
    THEN LET end == IF begin + maxCount > Len(data.elems)
                    THEN Len(data.elems) ELSE begin + maxCount
             objects == Cut(data, begin, end)
         IN  IF handler(h, objects) # NoErr /\ end = Len(data.elems)
             THEN BatchResult(handler(h, objects), Append(calls, objects))
             ELSE batchOperationLoopGoOn(data, h, begin + maxCount, Append(calls, objects))
    ELSE BatchResult(NoErr, calls)

RECURSIVE batchOperationLoop(_, _, _, _)
batchOperationLoop(data, h, begin, calls) ==
    IF begin < Len(data.elems)
    THEN LET end == IF begin + maxCount > Len(data.elems)
                    THEN Len(data.elems) ELSE begin + maxCount
             objects == Cut(data, begin, end)
         IN  IF handler(h, objects) # NoErr
             THEN BatchResult(handler(h, objects), Append(calls, objects))
             ELSE batchOperationLoop(data, h, begin + maxCount, Append(calls, objects))
    ELSE BatchResult(NoErr, calls)

BatchOperation(label, data, h) ==
    IF data.isnil THEN BatchResult(NoErr, <<>>)
    ELSE batchOperationLoop(data, h, 0, <<>>)

BatchQueryCall ==
    \E label \in Labels, data \in DataInputs, h \in BatchHandlers :
        LET res == BatchQuery(label, data, h)
        IN  /\ last = NoCall
            /\ last' = [op |-> "BatchQuery", data |-> data, h |-> h,
                        calls |-> res.calls, err |-> res.err]
            /\ UNCHANGED <<db, nops, txvars, master, running>>

BatchOperationCall ==
    \E label \in Labels, data \in DataInputs, h \in BatchHandlers :
        LET res == BatchOperation(label, data, h)
        IN  /\ last = NoCall
            /\ last' = [op |-> "BatchOperation", data |-> data, h |-> h,
                        calls |-> res.calls, err |-> res.err]
            /\ UNCHANGED <<db, nops, txvars, master, running>>

NextBatch ==
    \/ BatchQueryCall
    \/ BatchOperationCall

SpecBatch == Init /\ [][NextBatch]_vars


(***************************************************************************)
(* The namespace store: namespaces are the records of the type bucket      *)
(* "namespace", keyed by name, written and read through the handler.       *)
(* time.Now() is an input of the calls that read the clock.                *)
(***************************************************************************)
tblNameNamespace == "namespace"
defaultNamespace == "default"
polarisNamespace == "Polaris"

namespaceToToken(namespace) ==
    IF namespace = defaultNamespace THEN "e2e473081d3d4306b52264e49f7ce227"
    ELSE "2d1bfe5d12e04d54b8ee69e62494c7fd"
namespaceToComment(namespace) ==
    IF namespace = defaultNamespace THEN "Default Environment" ELSE "Polaris-server"

\* a *model.Namespace
Namespace(name, comment, token, owner, valid, ctime, mtime) ==
    Object("Namespace", [Name |-> Str(name), Comment |-> Str(comment), Token |-> Str(token),
                         Owner |-> Str(owner), Valid |-> Bool(valid),
                         CreateTime |-> Time(ctime), ModifyTime |-> Time(mtime)])
NilNamespace == Namespace("", "", "", "", FALSE, 0, 0)

\* what a call of the namespace store returns, and the store it leaves
NsResult(err, d, isnil, ns) == [err |-> err, db |-> d, isnil |-> isnil, ns |-> ns]

\* handler.SaveValue and handler.UpdateValue: the function run in db.Update
handlerSaveValue(d, typ, key, value) ==
    LET res == SaveValueTx(d, typ, key, value)
    IN  TxResult(res.err, Update(d, res))
handlerUpdateValue(d, typ, key, props) ==
    LET res == UpdateValueTx(d, typ, key, props)
    IN  TxResult(res.err, Update(d, res))

\* GetNamespace: nil, nil when there is no namespace of this name
GetNamespace(d, name) ==
    LET r == LoadValues(d, tblNameNamespace, <<name>>, "Namespace")
    IN  IF r.err # NoErr THEN NsResult(r.err, d, TRUE, NilNamespace)
        ELSE IF name \notin DOMAIN r.values THEN NsResult(NoErr, d, TRUE, NilNamespace)
        ELSE NsResult(NoErr, d, FALSE, r.values[name])

\* AddNamespace
AddNamespace(d, namespace) ==
    IF namespace.f.Name.s = "" \/ namespace.f.Owner.s = "" \/ namespace.f.Token.s = ""
    THEN TxResult("store add namespace some param are empty", d)
    ELSE handlerSaveValue(d, tblNameNamespace, namespace.f.Name.s,
                          [namespace EXCEPT !.f.Valid = Bool(TRUE)])

\* the namespace InitData adds under a name; time.Now() is read once for
\* CreateTime and once more for ModifyTime
newNamespace(namespace, ctime, mtime) ==
    Namespace(namespace, namespaceToComment(namespace), namespaceToToken(namespace),
              "polaris", TRUE, ctime, mtime)

\* (variant: a namespace is added whether or not GetNamespace found one)
RECURSIVE initNamespacesAlways(_, _, _)
initNamespacesAlways(d, namespaces, clock) ==
    IF namespaces = <<>> THEN TxResult(NoErr, d)
    ELSE LET namespace == Head(namespaces)
             ns == GetNamespace(d, namespace)
         IN  IF ns.err # NoErr THEN TxResult(ns.err, d)
             ELSE LET r == AddNamespace(d, newNamespace(namespace, clock[1], clock[2]))
                  IN  IF r.err # NoErr THEN r
                      ELSE initNamespacesAlways(r.db, Tail(namespaces), Tail(Tail(clock)))

\* the loop of InitData over the namespaces left, when no other caller
\* commits between its transactions; clock holds what time.Now() returns,
\* reading after reading
RECURSIVE initNamespaces(_, _, _)
initNamespaces(d, namespaces, clock) ==
    IF namespaces = <<>> THEN TxResult(NoErr, d)
    ELSE LET namespace == Head(namespaces)
             ns == GetNamespace(d, namespace)
         IN  IF ns.err # NoErr THEN TxResult(ns.err, d)
             ELSE IF ~ns.isnil THEN initNamespaces(d, Tail(namespaces), clock)
             ELSE LET r == AddNamespace(d, newNamespace(namespace, clock[1], clock[2]))
                  IN  IF r.err # NoErr THEN r
                      ELSE initNamespaces(r.db, Tail(namespaces), Tail(Tail(clock)))

\* the names InitData looks after, in the order of its loop
initNames == <<defaultNamespace, polarisNamespace>>

InitData(d, clock) == initNamespaces(d, initNames, clock)

\* the property map as the pairs the iteration over it yields, in its order
Properties(values, order) == [i \in 1..Len(order) |-> <<order[i], values[order[i]]>>]

\* (variant: the token of the namespace handed in is written too)
UpdateNamespaceWithToken(d, namespace, now, order) ==
    IF namespace.f.Name.s = "" \/ namespace.f.Owner.s = ""
    THEN TxResult("store update namespace some param are empty", d)
    ELSE handlerUpdateValue(d, tblNameNamespace, namespace.f.Name.s,
            Properties([Owner |-> namespace.f.Owner, Comment |-> namespace.f.Comment,
                        ModifyTime |-> Time(now)], order)
            \o <<<<"Token", namespace.f.Token>>>>)

\* UpdateNamespace
UpdateNamespace(d, namespace, now, order) ==
    IF namespace.f.Name.s = "" \/ namespace.f.Owner.s = ""
    THEN TxResult("store update namespace some param are empty", d)
    ELSE handlerUpdateValue(d, tblNameNamespace, namespace.f.Name.s,
            Properties([Owner |-> namespace.f.Owner, Comment |-> namespace.f.Comment,
                        ModifyTime |-> Time(now)], order))

\* UpdateNamespaceToken
UpdateNamespaceToken(d, name, token, now, order) ==
    IF name = "" \/ token = ""
    THEN TxResult("update Namespace Token missing some params", d)
    ELSE handlerUpdateValue(d, tblNameNamespace, name,
            Properties([Token |-> Str(token), ModifyTime |-> Time(now)], order))

\* NamespaceSlice.Less
Less(a, b) == a.f.ModifyTime.n < b.f.ModifyTime.n

\* every order of a set, as the sequences that hold each member once
Orders(S) == {s \in [1..Cardinality(S) -> S] : \A x \in S : \E i \in DOMAIN s : s[i] = x}

\* toNamespaces followed by sort.Sort(sort.Reverse(namespaces)): the values
\* come out of the map in any order and the sort is not stable, so the slice
\* is any order of the namespaces in which none is before a later-modified one
sortedNamespaces(values) ==
    { [i \in DOMAIN s |-> values[s[i]]] :
        s \in {o \in Orders(DOMAIN values) :
                  \A i, j \in DOMAIN o : i < j => ~Less(values[o[i]], values[o[j]])} }

\* the slice GetNamespaces cuts out of the sorted namespaces
page(namespaces, offset, limit) ==
    LET startIdx == offset * limit
        endIdx == IF startIdx + limit > Len(namespaces) THEN Len(namespaces)
                  ELSE startIdx + limit
    IN  IF startIdx >= Len(namespaces) THEN [isnil |-> TRUE, list |-> <<>>]
        ELSE [isnil |-> FALSE, list |-> SubSeq(namespaces, startIdx + 1, endIdx)]

\* GetNamespaces: what it may return, one result for each order the sort
\* may leave the namespaces in; the filter is not looked at and the count
\* returned is 0
GetNamespaces(d, filter, offset, limit) ==
    LET r == LoadValuesAll(d, tblNameNamespace, "Namespace")
    IN  IF r.err # NoErr THEN {[err |-> r.err, isnil |-> TRUE, list |-> <<>>, count |-> 0]}
        ELSE { [err |-> NoErr, isnil |-> page(s, offset, limit).isnil,
                list |-> page(s, offset, limit).list, count |-> 0] :
               s \in sortedNamespaces(r.values) }


(***************************************************************************)
(* The calls of the namespace store.  A run is a sequence of writes, among *)
(* them an UpdateValue of the handler, followed up to its first read.      *)
(* InitData runs a read and a write transaction for each of its two names; *)
(* what the other callers commit between them is in the store the next     *)
(* one finds.                                                              *)
(***************************************************************************)
\* what time.Now() returns
Times == {1, 2}
\* what it returns in the four readings of a run of InitData: a reading is
\* never earlier than the one before
Clocks == {c \in [1..4 -> Times] : \A i \in 1..3 : c[i] <= c[i + 1]}

\* namespaces handed to AddNamespace and to UpdateNamespace
NamespaceInputs ==
    {Namespace(n, "test ns", "111111", "user1", FALSE, t, t) : n \in Keys, t \in Times}
    \cup {Namespace("", "test ns", "111111", "user1", FALSE, 1, 1),
          Namespace("default", "test ns", "111111", "", FALSE, 1, 1),
          Namespace("default", "test ns", "", "user1", FALSE, 1, 1)}
NamespaceUpdates ==
    {Namespace(n, "new comment", "333333", "user2", FALSE, 0, 0) : n \in Keys}
    \cup {Namespace("", "new comment", "333333", "user2", FALSE, 0, 0),
          Namespace("default", "new comment", "333333", "", FALSE, 0, 0)}
\* a property of the wrong kind handed to UpdateValue of the handler
WrongKindProps == {<<<<"Name", Bool(TRUE)>>>>}
\* tokens handed to UpdateNamespaceToken
TokenInputs == {"222222", ""}
\* offsets and limits handed to GetNamespaces
Offsets == 0..2
Limits == 0..3

\* InitData, the read transaction of a turn of its loop: GetNamespace of the
\* name of the turn.  The call begins with the one of its first turn; it
\* returns the error of the read, goes on to the next turn when there is
\* such a namespace, and goes on to add one when there is none.
InitDataView(c) ==
    LET r == running[c]
        turn == IF r = NoCall THEN 1 ELSE r.turn
        existed == IF r = NoCall THEN {n \in Keys : HasRecord(db, tblNameNamespace, n)}
                   ELSE r.existed
        now == IF r = NoCall THEN 0 ELSE r.now
        ns == GetNamespace(db, initNames[turn])
        returns == ns.err # NoErr \/ (~ns.isnil /\ turn = Len(initNames))
    IN  /\ last.op \in WriteOps
        /\ r = NoCall \/ (r.op = "InitData" /\ r.phase = "view")
        /\ running' = [running EXCEPT ![c] =
                          IF returns THEN NoCall
                          ELSE IF ns.isnil
                          THEN [op |-> "InitData", phase |-> "add", turn |-> turn,
                                existed |-> existed, now |-> now]
                          ELSE [op |-> "InitData", phase |-> "view", turn |-> turn + 1,
                                existed |-> existed, now |-> now]]
        /\ last' = [op |-> "InitData", caller |-> c, err |-> ns.err, returned |-> returns,
                    existed |-> existed]
        /\ UNCHANGED <<db, nops, txvars, master>>

\* InitData, the write transaction of a turn: AddNamespace of the namespace
\* of the turn, on the store as the other callers have left it since the
\* read; the clock is read twice, no reading earlier than the one before
InitDataAdd(c) ==
    \E ctime \in Times, mtime \in Times :
        LET r == running[c]
            res == AddNamespace(db, newNamespace(initNames[r.turn], ctime, mtime))
            returns == res.err # NoErr \/ r.turn = Len(initNames)
        IN  /\ last.op \in WriteOps
            /\ nops < MaxOps
            /\ r.op = "InitData" /\ r.phase = "add"
            /\ r.now <= ctime /\ ctime <= mtime
            /\ db' = res.db
            /\ running' = [running EXCEPT ![c] =
                              IF returns THEN NoCall
                              ELSE [r EXCEPT !.phase = "view", !.turn = r.turn + 1,
                                             !.now = mtime]]
            /\ last' = [op |-> "InitData", caller |-> c, err |-> res.err,
                        returned |-> returns, existed |-> r.existed]
            /\ nops' = nops + 1
            /\ UNCHANGED <<txvars, master>>

AddNamespaceCall ==
    \E namespace \in NamespaceInputs :
        LET res == AddNamespace(db, namespace)
        IN  /\ last.op \in WriteOps
            /\ nops < MaxOps
            /\ db' = res.db
            /\ last' = [op |-> "AddNamespace", namespace |-> namespace, err |-> res.err]
            /\ nops' = nops + 1
            /\ UNCHANGED <<txvars, master, running>>

UpdateNamespaceCall ==
    \E namespace \in NamespaceUpdates, now \in Times,
       order \in Orders({"Owner", "Comment", "ModifyTime"}) :
        LET res == UpdateNamespace(db, namespace, now, order)
        IN  /\ last.op \in WriteOps
            /\ nops < MaxOps
            /\ db' = res.db
            /\ last' = [op |-> "UpdateNamespace", namespace |-> namespace, now |-> now,
                        err |-> res.err]
            /\ nops' = nops + 1
            /\ UNCHANGED <<txvars, master, running>>

UpdateNamespaceTokenCall ==
    \E name \in KeyInputs, token \in TokenInputs, now \in Times,
       order \in Orders({"Token", "ModifyTime"}) :
        LET res == UpdateNamespaceToken(db, name, token, now, order)
        IN  /\ last.op \in WriteOps
            /\ nops < MaxOps
            /\ db' = res.db
            /\ last' = [op |-> "UpdateNamespaceToken", name |-> name, token |-> token,
                        now |-> now, err |-> res.err]
            /\ nops' = nops + 1
            /\ UNCHANGED <<txvars, master, running>>

\* UpdateValue of the handler, called on a namespace by another caller
UpdateValueCall ==
    \E key \in Keys, props \in WrongKindProps :
        LET res == handlerUpdateValue(db, tblNameNamespace, key, props)
        IN  /\ last.op \in WriteOps
            /\ nops < MaxOps
            /\ db' = res.db
            /\ last' = [op |-> "UpdateValue", typ |-> tblNameNamespace, key |-> key,
                        props |-> props, err |-> res.err,
                        before |-> Before(db, tblNameNamespace, key)]
            /\ nops' = nops + 1
            /\ UNCHANGED <<txvars, master, running>>

GetNamespaceCall ==
    \E name \in KeyInputs :
        LET res == GetNamespace(db, name)
        IN  /\ last.op \in WriteOps
            /\ last' = [op |-> "GetNamespace", name |-> name, err |-> res.err,
                        isnil |-> res.isnil, ns |-> res.ns]
            /\ UNCHANGED <<db, nops, txvars, master, running>>

GetNamespacesCall ==
    \E offset \in Offsets, limit \in Limits :
        \E res \in GetNamespaces(db, <<>>, offset, limit) :
            /\ last.op \in WriteOps
            /\ last' = [op |-> "GetNamespaces", offset |-> offset, limit |-> limit,
                        err |-> res.err, isnil |-> res.isnil, list |-> res.list]
            /\ UNCHANGED <<db, nops, txvars, master, running>>

\* the writes of the namespace store and of the handler beneath it
NsWrite ==
    \/ \E c \in Initialisers : InitDataView(c)
    \/ \E c \in Initialisers : InitDataAdd(c)
    \/ AddNamespaceCall
    \/ UpdateNamespaceCall
    \/ UpdateNamespaceTokenCall
    \/ UpdateValueCall

NextNs ==
    \/ NsWrite
    \/ GetNamespaceCall

SpecNs == Init /\ [][NextNs]_vars

\* the same runs, followed up to a GetNamespaces
NextPage ==
    \/ NsWrite
    \/ GetNamespacesCall

SpecPage == Init /\ [][NextPage]_vars


(***************************************************************************)
(* Properties                                                              *)
(***************************************************************************)
\* two field values agree; an empty map and an absent (nil) map agree
SameValue(a, b) == IF a.kind = "map" /\ b.kind = "map" THEN a.m = b.m ELSE a = b

\* the elements of a slice
Range(s) == {s[i] : i \in 1..Len(s)}

\* the keys of a slice that have a record bucket under the type
Present(d, typ, keys) == {k \in Range(keys) : HasRecord(d, typ, k)}

\* the shape that declares a field
ShapeOf(field) == IF field \in ShapeFields("Service") THEN "Service" ELSE "Location"

\* C1: after a successful SaveValue(typ, k, r), LoadValues(typ, [k]) with the
\* record's prototype returns exactly the key k, mapped to a record equal to r
\* on every field; an empty map field loads as an absent map, a populated map
\* field with the same keys and values.
C1_RecordRoundTrip ==
    (last.op = "SaveValue" /\ last.err = NoErr) =>
        LET r == LoadValues(db, last.typ, <<last.key>>, last.value.shape)
        IN  /\ r.err = NoErr
            /\ DOMAIN r.values = {last.key}
            /\ \A f \in ShapeFields(last.value.shape) :
                  SameValue(r.values[last.key].f[f], last.value.f[f])

\* a record with a populated map was saved over a record whose map and name
\* an earlier UpdateValue had rewritten
C1_Witness ==
    /\ last.op = "SaveValue" /\ last.err = NoErr
    /\ last.value.f["Meta"].m = {<<"k1", "v1">>, <<"k2", "v1">>}
    /\ last.before.present
    /\ last.before.ent["meta"] = Nested({<<"k2", "v2">>})

\* the entries a record bucket holds for a record: one flat tagged entry per
\* scalar field, one nested bucket per non-empty map field, nothing else
EntriesOf(value) ==
    [bk \in BucketKeys |->
        IF \E f \in ShapeFields(value.shape) : toBucketField(f) = bk
        THEN LET f == CHOOSE g \in ShapeFields(value.shape) : toBucketField(g) = bk
                 v == value.f[f]
             IN  IF v.kind = "map"
                 THEN (IF v.m = {} THEN NoEntry ELSE Nested(v.m))
                 ELSE Flat([tag |-> KindTag(v.kind),
                            s |-> IF v.kind = "string" THEN v.s ELSE "",
                            n |-> IF v.kind = "string" THEN 0 ELSE v.n])
        ELSE NoEntry]

\* C2: a successful SaveValue(typ, k, r2) leaves the record bucket of k holding
\* exactly the flat entries and the nested map entries of r2, whatever
\* SaveValue and UpdateValue calls wrote under k before.
C2_FullReplace ==
    (last.op = "SaveValue" /\ last.err = NoErr) =>
        /\ HasRecord(db, last.typ, last.key)
        /\ db[last.typ].recs[last.key].ent = EntriesOf(last.value)

\* a record with an empty map was saved over a record that held a nested map
\* bucket and an entry ("regionid") the new record has no field for
C2_Witness ==
    /\ last.op = "SaveValue" /\ last.err = NoErr
    /\ last.value.f["Meta"].m = {}
    /\ last.before.present
    /\ last.before.ent["meta"].e = "bucket"
    /\ last.before.ent["regionid"].e = "flat"

\* C3 as claimed: LoadValues returns, for every key slice, without error a map
\* whose key set is exactly the keys of the slice that have a record bucket.
C3_LoadNeverFails ==
    (last.op = "LoadValues") =>
        /\ last.err = NoErr
        /\ DOMAIN last.values = Present(db, last.typ, last.keys)

\* C3 amended: a key without a record bucket (or a missing type bucket) gives
\* no entry and no error. LoadValues fails exactly when a record bucket of the
\* slice fails to decode under the prototype: it then returns that record's
\* decode error together with the records of the slice that come before it,
\* decoded. When it does not fail its result has exactly the keys of the slice
\* that have a record bucket, each with its decoded record.
C3_MissingKeys ==
    (last.op = "LoadValues") =>
        LET failing == {i \in 1..Len(last.keys) :
                           /\ HasRecord(db, last.typ, last.keys[i])
                           /\ deserializeObject(db[last.typ].recs[last.keys[i]].ent,
                                                last.shape).err # NoErr}
            stop == IF failing = {} THEN Len(last.keys) + 1
                    ELSE CHOOSE i \in failing : \A j \in failing : i <= j
            loaded == {last.keys[j] : j \in {j \in 1..(stop - 1) :
                                                HasRecord(db, last.typ, last.keys[j])}}
        IN  /\ (last.err = NoErr) <=> (failing = {})
            /\ failing # {} =>
                   last.err = deserializeObject(db[last.typ].recs[last.keys[stop]].ent,
                                                last.shape).err
            /\ failing = {} => loaded = Present(db, last.typ, last.keys)
            /\ DOMAIN last.values = loaded
            /\ \A k \in loaded :
                   last.values[k] = deserializeObject(db[last.typ].recs[k].ent, last.shape).obj

\* a load of one present and one absent key returned the present one only
C3_Witness ==
    /\ last.op = "LoadValues" /\ last.err = NoErr
    /\ last.keys = <<"Polaris", "default">>
    /\ DOMAIN last.values = {"default"}
    /\ db[last.typ].exists

\* C4: UpdateValue on a key without a record bucket, or on a type without a
\* type bucket, returns no error and leaves the whole store as it was.
C4_UpdateNotUpsert ==
    [][(last'.op = "UpdateValue" /\ ~HasRecord(db, last'.typ, last'.key)) =>
          (last'.err = NoErr /\ db' = db)]_vars

\* an update with properties ran on a missing key of an existing type bucket
C4_Witness ==
    /\ last.op = "UpdateValue"
    /\ ~last.before.present
    /\ Len(last.props) > 0
    /\ db[last.typ].exists
    /\ \E k \in Keys : HasRecord(db, last.typ, k)

\* the names a property map names
Named(props) == {props[i][1] : i \in 1..Len(props)}

\* C5: UpdateValue on an existing record leaves every field the property map
\* does not name as it was (its entry, its single-field read and its decoded
\* value), and leaves every other record and every type bucket as it was.
C5_UpdateIsolatesFields ==
    [][(last'.op = "UpdateValue" /\ HasRecord(db, last'.typ, last'.key)) =>
          LET typ == last'.typ
              key == last'.key
              old == db[typ].recs[key].ent
              new == db'[typ].recs[key].ent
          IN  /\ \A t \in Types : db'[t].exists = db[t].exists
              /\ \A t \in Types, k \in Keys :
                    (t # typ \/ k # key) => db'[t].recs[k] = db[t].recs[k]
              /\ db'[typ].recs[key].present
              /\ \A f \in FieldNames \ Named(last'.props) :
                    /\ new[toBucketField(f)] = old[toBucketField(f)]
                    /\ getFieldObject(new, ShapeOf(f), f) = getFieldObject(old, ShapeOf(f), f)
                    /\ decodeField(new[toBucketField(f)], FieldKind(f))
                          = decodeField(old[toBucketField(f)], FieldKind(f))]_vars

\* an update of the timestamp alone went through on a record with a name and a
\* populated map
C5_Witness ==
    /\ last.op = "UpdateValue" /\ last.err = NoErr
    /\ last.before.present
    /\ last.props = <<<<"ModifyTime", Time(2)>>>>
    /\ last.before.ent["modifytime"] = Flat(encodeTimeBuffer(1))
    /\ db[last.typ].recs[last.key].ent["modifytime"] = Flat(encodeTimeBuffer(2))
    /\ db[last.typ].recs[last.key].ent["name"].e = "flat"
    /\ db[last.typ].recs[last.key].ent["meta"].e = "bucket"

\* the single property of a call holds a value of the kind its field declares
MatchingProp(props) ==
    /\ Len(props) = 1
    /\ props[1][1] \in FieldNames
    /\ props[1][2].kind = FieldKind(props[1][1])

\* C6 as claimed: after a successful UpdateValue(typ, key, {F: v}) on an
\* existing record, v of the kind F declares, LoadValues returns the record
\* with F equal to v.
C6_UpdateThenLoad ==
    (last.op = "UpdateValue" /\ last.err = NoErr /\ last.before.present
        /\ MatchingProp(last.props)) =>
        LET F == last.props[1][1]
            r == LoadValues(db, last.typ, <<last.key>>, ShapeOf(F))
        IN  /\ r.err = NoErr
            /\ last.key \in DOMAIN r.values
            /\ SameValue(r.values[last.key].f[F], last.props[1][2])

\* the fields of the prototype other than F decode in the record bucket
OthersDecode(ent, F) ==
    \A g \in ShapeFields(ShapeOf(F)) \ {F} :
        decodeField(ent[toBucketField(g)], FieldKind(g)).err = NoErr

\* C6 amended: the same, for a record whose other fields decode under the
\* prototype; a record with a field that does not decode makes LoadValues fail.
C6_UpdateThenLoadDecodable ==
    (last.op = "UpdateValue" /\ last.err = NoErr /\ last.before.present
        /\ MatchingProp(last.props)) =>
        LET F == last.props[1][1]
            r == LoadValues(db, last.typ, <<last.key>>, ShapeOf(F))
            ent == db[last.typ].recs[last.key].ent
        IN  IF OthersDecode(ent, F)
            THEN /\ r.err = NoErr
                 /\ last.key \in DOMAIN r.values
                 /\ SameValue(r.values[last.key].f[F], last.props[1][2])
            ELSE r.err # NoErr

\* a timestamp was updated on a saved record and loads with the new value
C6_Witness ==
    /\ last.op = "UpdateValue" /\ last.err = NoErr
    /\ last.before.present
    /\ last.props = <<<<"ModifyTime", Time(2)>>>>
    /\ last.before.ent["modifytime"] = Flat(encodeTimeBuffer(1))
    /\ OthersDecode(db[last.typ].recs[last.key].ent, "ModifyTime")
    /\ LoadValues(db, last.typ, <<last.key>>, "Service").values[last.key].f["ModifyTime"] = Time(2)


\* the change of the number of records of type t that the call recorded in
\* last' makes to the store d it ran on
CountDelta(d, call, t) ==
    IF call.op = "SaveValue" /\ call.typ = t /\ call.err = NoErr
        /\ ~HasRecord(d, t, call.key) THEN 1
    ELSE IF call.op = "DeleteValues" /\ call.typ = t /\ call.err = NoErr
    THEN 0 - Cardinality(Present(d, t, call.keys))
    ELSE 0

\* C7: CountValues(typ) follows the population: it starts at 0, a SaveValue of
\* a new key adds one, a DeleteValues takes off the number of named keys that
\* had a record, and a re-save, an update or a failed call leave it as it was;
\* so it is the number of distinct keys that have a record under typ.
C7_CountMatchesPopulation ==
    [][\A t \in Types :
          /\ CountValues(db', t) = CountValues(db, t) + CountDelta(db, last', t)
          /\ (last'.op = "CountValues" /\ last'.typ = t) =>
                last'.count = Cardinality({k \in Keys : HasRecord(db, t, k)})]_vars

\* two keys were saved, one of them was deleted, and the count is one
C7_Witness ==
    /\ last.op = "DeleteValues"
    /\ last.existed = {"Polaris"}
    /\ nops = MaxOps
    /\ CountValues(db, last.typ) = 1
    /\ HasRecord(db, last.typ, "default")

\* C8: DeleteValues returns no error whether or not the named keys and the
\* type bucket exist, and running the same DeleteValues again returns no
\* error and leaves the store as the first run left it.
C8_DeleteIdempotent ==
    (last.op = "DeleteValues") =>
        /\ last.err = NoErr
        /\ DeleteValuesTx(db, last.typ, last.keys) = TxResult(NoErr, db)
        /\ Update(db, DeleteValuesTx(db, last.typ, last.keys)) = db

\* a delete named one key that had a record and one that had none
C8_Witness ==
    /\ last.op = "DeleteValues" /\ last.err = NoErr
    /\ last.keys = <<"Polaris", "default">>
    /\ last.existed = {"default"}

\* C9: after a successful DeleteValues(typ, K) no key of K has a record under
\* typ and LoadValues of it returns an empty map; the records of typ under the
\* other keys, the records of the other types and the type buckets are as
\* they were.
C9_DeleteFrame ==
    [][(last'.op = "DeleteValues" /\ last'.err = NoErr) =>
          /\ \A k \in Range(last'.keys) :
                /\ ~HasRecord(db', last'.typ, k)
                /\ \A shape \in Shapes :
                      LoadValues(db', last'.typ, <<k>>, shape) = [err |-> NoErr, values |-> NoValues]
          /\ \A t \in Types : db'[t].exists = db[t].exists
          /\ \A t \in Types, k \in Keys :
                (t # last'.typ \/ k \notin Range(last'.keys)) => db'[t].recs[k] = db[t].recs[k]]_vars

\* a delete removed the record of a key while the other type keeps its record
\* of that key
C9_Witness ==
    /\ last.op = "DeleteValues" /\ last.err = NoErr
    /\ last.existed = {"Polaris"}
    /\ ~HasRecord(db, last.typ, "Polaris")
    /\ \E t \in Types \ {last.typ} : HasRecord(db, t, "Polaris")

\* the keys the predicate was invoked for, in call order
CalledKeys(calls) == [i \in 1..Len(calls) |-> calls[i][1]]

\* the mapping of the requested fields of one record: every requested field
\* with the value its single-field read gives
RequestedMapping(ent, shape, fields) ==
    {<<f, getFieldObject(ent, shape, f).val>> : f \in {g \in Range(fields) :
                                                   getFieldObject(ent, shape, g).val # NilV}}

\* the predicate was invoked once per record of the type, in key order, each
\* time with the mapping of the requested fields, and the result holds the
\* records it accepted
FilteredByPredicate(call) ==
    LET tb == db[call.typ]
        keys == IF tb.exists THEN getKeys(tb) ELSE <<>>
    IN  /\ CalledKeys(call.calls) = keys
        /\ \A i \in 1..Len(call.calls) :
              call.calls[i][2] = RequestedMapping(tb.recs[keys[i]].ent, call.shape, call.fields)
        /\ DOMAIN call.values =
              {k \in Range(keys) :
                  ApplyFilter(call.filter, RequestedMapping(tb.recs[k].ent, call.shape, call.fields))}
        /\ \A k \in DOMAIN call.values :
              call.values[k] = deserializeObject(tb.recs[k].ent, call.shape).obj

SomeFieldReadFails(d, typ, shape, fields) ==
    \E k \in Keys, f \in Range(fields) :
        /\ HasRecord(d, typ, k)
        /\ getFieldObject(d[typ].recs[k].ent, shape, f).err # NoErr

\* some record of the type fails the full deserialize under the prototype
SomeRecordMalformed(d, typ, shape) ==
    \E k \in Keys :
        /\ HasRecord(d, typ, k)
        /\ deserializeObject(d[typ].recs[k].ent, shape).err # NoErr

\* C11 as claimed: LoadValuesByFilter requesting a field with a predicate that
\* always returns false returns zero records and no error, whatever records
\* are stored.
C11_RejectAllNeverFails ==
    (last.op = "LoadValuesByFilter" /\ last.filter = "never" /\ Len(last.fields) > 0) =>
        /\ last.err = NoErr
        /\ last.values = NoValues

\* C11 amended: with a predicate that always returns false the result has no
\* record, and the call fails exactly when the single-field read of a
\* requested field fails in some record; a record whose other fields are
\* malformed is never fully deserialized and causes no error.
C11_RejectAllShortCircuits ==
    (last.op = "LoadValuesByFilter" /\ last.filter = "never" /\ Len(last.fields) > 0) =>
        /\ last.values = NoValues
        /\ (last.err # NoErr) <=> SomeFieldReadFails(db, last.typ, last.shape, last.fields)

\* a rejecting filter on RegionID ran without error over a record whose Name
\* entry does not decode under the prototype
C11_Witness ==
    /\ last.op = "LoadValuesByFilter" /\ last.filter = "never"
    /\ last.fields = <<"RegionID">>
    /\ last.err = NoErr /\ last.values = NoValues
    /\ SomeRecordMalformed(db, last.typ, last.shape)

\* C12: in LoadValuesByFilter a requested field that resolves to no value in
\* a record (no flat entry and no nested bucket under its bucket key) is
\* absent from the mapping passed to the predicate: every field the mapping
\* carries has an entry in the record, and no value in it is a nil placeholder.
C12_NoValueOmitted ==
    (last.op = "LoadValuesByFilter") =>
        \A i \in 1..Len(last.calls) :
            \A p \in last.calls[i][2] :
                /\ db[last.typ].recs[last.calls[i][1]].ent[toBucketField(p[1])] # NoEntry
                /\ ~p[2].isnil

\* runtime types the switch of UpdateValue has no encoder for
Unsupported(v) == v.kind \in {"nil", "float64", "intmap"}

\* the field is named by one property of the call only
NamedOnce(props, i) == \A j \in 1..Len(props) : props[j][1] = props[i][1] => j = i

\* C13: UpdateValue on an existing record with a property of an unsupported
\* runtime type (nil, a float, a map that is not string-to-string) returns no
\* error, writes no entry for that property and still writes the supported
\* scalar properties of the same call.
C13_UnsupportedSkipped ==
    (/\ last.op = "UpdateValue"
     /\ last.before.present
     /\ \E i \in 1..Len(last.props) : Unsupported(last.props[i][2])) =>
        /\ last.err = NoErr
        /\ \A i \in 1..Len(last.props) :
              LET bk == toBucketField(last.props[i][1])
                  v == last.props[i][2]
                  now == db[last.typ].recs[last.key].ent[bk]
              IN  /\ (Unsupported(v) /\ NamedOnce(last.props, i)) =>
                         now = last.before.ent[bk]
                  /\ (~Unsupported(v) /\ v.kind \notin {"map", "message"}
                         /\ NamedOnce(last.props, i)) =>
                         now = Flat(encodeScalar(v))

\* C14: UpdateValue is all-or-nothing: when writing one property of the
\* property map fails, UpdateValue returns the error and the record equals its
\* state before the call, the properties written before the failure included.
C14_UpdateAllOrNothing ==
    (last.op = "UpdateValue" /\ last.err # NoErr) =>
        /\ db[last.typ].recs[last.key] = last.before
        /\ LoadValues(db, last.typ, <<last.key>>, "Service") =
              LoadValues([db EXCEPT ![last.typ].recs[last.key] = last.before],
                         last.typ, <<last.key>>, "Service")

\* the second of two properties failed in the engine (a flat entry cannot
\* replace the nested bucket of Meta) after the first, a new Name, was put
C14_Witness ==
    /\ last.op = "UpdateValue" /\ last.err = "ErrIncompatibleValue"
    /\ last.props = <<<<"Name", Str("z")>>, <<"Meta", Str("z")>>>>
    /\ last.before.present
    /\ last.before.ent["name"] # Flat(encodeStringBuffer("z"))
    /\ Put(last.before.ent, "name", encodeStringBuffer("z")).err = NoErr

\* C15: SaveValue is all-or-nothing: a SaveValue that fails, also after the
\* old record bucket was deleted or the type bucket created, returns the error
\* and leaves the store identical to its state before the call.
C15_SaveAllOrNothing ==
    [][(last'.op = "SaveValue" /\ nops' = nops + 1 /\ last'.err # NoErr) => db' = db]_vars

\* a save over an existing record failed inside the nested map bucket, after
\* the old record bucket had been deleted; the old record is still loadable
C15_Witness ==
    /\ last.op = "SaveValue" /\ last.err = "ErrKeyRequired"
    /\ last.before.present
    /\ db[last.typ].recs[last.key] = last.before
    /\ LoadValues(db, last.typ, <<last.key>>, "Service").err = NoErr
    /\ DOMAIN LoadValues(db, last.typ, <<last.key>>, "Service").values = {last.key}

\* a sequence is an initial segment of another
IsPrefix(s, u) == Len(s) <= Len(u) /\ \A i \in 1..Len(s) : s[i] = u[i]

\* C19 as claimed: IterateFields with a non-nil callback invokes the callback
\* exactly once for each record under the type, as many times as CountValues
\* counts, and never for a key without a record.
C19_IterateVisitsAll ==
    (last.op = "IterateFields" /\ last.filter # "nil") =>
        /\ Len(last.calls) = CountValues(db, last.typ)
        /\ \A k \in Keys : HasRecord(db, last.typ, k) <=>
              Cardinality({i \in 1..Len(last.calls) : last.calls[i][1] = k}) = 1
        /\ \A i \in 1..Len(last.calls) : HasRecord(db, last.typ, last.calls[i][1])

\* C19 amended: the callback is invoked at most once per record and only for
\* keys that have a record, with the single-field read of that record; when
\* IterateFields returns no error it was invoked exactly once for each
\* record (CountValues times), and when the single-field read of a record
\* fails IterateFields returns the error and the records after it are not
\* visited.
C19_IterateVisitsAllUnlessError ==
    (last.op = "IterateFields" /\ last.filter # "nil") =>
        LET keys == IF db[last.typ].exists THEN getKeys(db[last.typ]) ELSE <<>>
        IN  /\ IsPrefix(CalledKeys(last.calls), keys)
            /\ \A i \in 1..Len(last.calls) :
                  last.calls[i][2] =
                      getFieldObject(db[last.typ].recs[last.calls[i][1]].ent,
                                     last.shape, last.field).val
            /\ (last.err = NoErr) =>
                  /\ CalledKeys(last.calls) = keys
                  /\ Len(last.calls) = CountValues(db, last.typ)
            /\ (last.err # NoErr) =>
                  /\ Len(last.calls) < Len(keys)
                  /\ getFieldObject(db[last.typ].recs[keys[Len(last.calls) + 1]].ent,
                                    last.shape, last.field).err # NoErr

\* the callback was invoked for both records of a type, one of them with the
\* nil map of a record that has no Meta bucket
C19_Witness ==
    /\ last.op = "IterateFields" /\ last.filter = "collect" /\ last.err = NoErr
    /\ last.field = "Meta"
    /\ Len(last.calls) = 2
    /\ last.calls[1][2] = NilMap
    /\ last.calls[2][2].kind = "map" /\ ~last.calls[2][2].isnil

(***************************************************************************)
(* Properties of the concurrent transactions (SpecTx)                      *)
(***************************************************************************)
\* the requested fields with the values a returned record carries in them
MappingOfRecord(obj, fields) ==
    {<<f, obj.f[f]>> : f \in {g \in Range(fields) : g \in DOMAIN obj.f}}

C17_ReadOneSnapshot ==
    \A r \in Readers :
        (rtx[r].st = "done" /\ rtx[r].call.op \in {"LoadValues", "LoadValuesAll"}) =>
            \E s \in committed :
                LET c == rtx[r].call
                    seq == IF c.op = "LoadValues"
                           THEN LoadValues(s, c.typ, c.keys, c.shape)
                           ELSE LoadValuesAll(s, c.typ, c.shape)
                IN  /\ rtx[r].err = seq.err
                    /\ rtx[r].values = seq.values

\* a load of both records returned them as they were when it began, while a
\* write committed between its two reads has renamed the second since
C17_Witness ==
    \E r \in Readers :
        /\ rtx[r].st = "done" /\ rtx[r].err = NoErr
        /\ rtx[r].call.op \in {"LoadValues", "LoadValuesAll"}
        /\ DOMAIN rtx[r].values = {"Polaris", "default"}
        /\ rtx[r].values["default"].f["Name"] = Str("x")
        /\ HasRecord(db, "service", "default")
        /\ db["service"].recs["default"].ent["name"] = Flat(encodeStringBuffer("z"))

\* C18: write transactions are serialized: at no time are two of them open
\* together, and the committed store always equals the store obtained by
\* running the committed SaveValue, UpdateValue, DeleteValues and Execute
\* calls one at a time in the order of their commits.
C18_WritesSerialized ==
    /\ Cardinality({w \in Writers : wtx[w].st = "open"}) <= 1
    /\ db = serial

\* both writers have committed, one of them an Execute, and one of them has
\* a further write transaction open
C18_Witness ==
    /\ wtx["w1"].done >= 1 /\ wtx["w2"].done >= 1
    /\ \E w \in Writers : wtx[w].st = "open" /\ wtx[w].call.op = "Execute"
    /\ HasRecord(db, "service", "Polaris")
    /\ db["service"].recs["Polaris"].ent["name"] = Flat(encodeStringBuffer("z"))

\* the bytes of a key, and the lexicographic order over byte strings
KeyBytes(k) ==
    CASE k = "Polaris" -> <<80, 111, 108, 97, 114, 105, 115>>
      [] k = "default" -> <<100, 101, 102, 97, 117, 108, 116>>
      [] OTHER -> <<>>
RECURSIVE LexLess(_, _)
LexLess(s, u) ==
    IF u = <<>> THEN FALSE
    ELSE IF s = <<>> THEN TRUE
    ELSE IF Head(s) # Head(u) THEN Head(s) < Head(u)
    ELSE LexLess(Tail(s), Tail(u))

\* C20: IterateFields hands the callback the per-record values in ascending
\* lexicographic order of the record keys, whatever the order in which the
\* records were saved, updated or re-saved.
C20_IterateAscending ==
    \A r \in Readers :
        (rtx[r].call.op = "IterateFields") =>
            \A i, j \in 1..Len(rtx[r].calls) :
                i < j => LexLess(KeyBytes(rtx[r].calls[i][1]), KeyBytes(rtx[r].calls[j][1]))

\* the callback got record a before record b although b was saved first: a
\* committed state held b and not a
C20_Witness ==
    \E r \in Readers :
        /\ rtx[r].st = "done" /\ rtx[r].call.op = "IterateFields"
        /\ CalledKeys(rtx[r].calls) = <<"Polaris", "default">>
        /\ \E s \in committed :
              HasRecord(s, "service", "default") /\ ~HasRecord(s, "service", "Polaris")

(***************************************************************************)
(* Properties of the soft and hard failures of the reads                   *)
(***************************************************************************)
\* C21: IterateFields with a nil callback returns nil, invokes nothing, reads
\* no record (it succeeds also where the single-field read of a record
\* fails) and leaves the store as it is, whether or not the type bucket
\* exists.
C21_NilCallbackNoOp ==
    [][(last'.op = "IterateFields" /\ last'.filter = "nil") =>
          /\ last'.err = NoErr
          /\ last'.calls = <<>>
          /\ db' = db]_vars

\* a nil callback was handed in for a type whose first record fails the
\* single-field read: with a callback the call returns an error
C21_Witness ==
    /\ last.op = "IterateFields" /\ last.filter = "nil" /\ last.err = NoErr
    /\ db[last.typ].exists
    /\ CountValues(db, last.typ) > 0
    /\ IterateFields(db, last.typ, last.field, last.shape, "collect").err # NoErr
    /\ \E t \in Types : ~db[t].exists

\* C22: a single-field read of a requested field that the prototype's shape
\* does not declare returns an error that aborts LoadValuesByFilter and
\* IterateFields: the predicate or callback is never handed a value for it.
C22_UndeclaredFieldFails ==
    /\ (/\ last.op = "LoadValuesByFilter" /\ last.filter # "nil"
        /\ last.fields # <<>>
        /\ \A f \in Range(last.fields) : f \notin ShapeFields(last.shape)
        /\ CountValues(db, last.typ) > 0)
          => (last.err # NoErr /\ last.calls = <<>>)
    /\ (/\ last.op = "IterateFields" /\ last.filter # "nil"
        /\ last.field \notin ShapeFields(last.shape)
        /\ CountValues(db, last.typ) > 0)
          => (last.err # NoErr /\ last.calls = <<>>)

\* the entry is a flat one whose tag byte no decoder knows
UnknownTag(e) ==
    /\ e.e = "flat"
    /\ e.buf.tag \notin {"typeString", "typeBool", "typeTime", "typeProtobuf"}
                           \cup IntTags \cup UintTags

\* the entry, if any, kept under the bucket key of a field in a record
EntryOf(d, typ, key, field) == d[typ].recs[key].ent[toBucketField(field)]

\* the entry is a flat one tagged as a message
MessageTag(e) == e.e = "flat" /\ e.buf.tag = "typeProtobuf"

\* C23: the single-field read of a flat entry whose tag byte is unknown
\* yields no value and no error.  IterateFields hands the callback nil for
\* such a record and LoadValuesByFilter leaves the field out of the mapping
\* of the predicate; both go on with the remaining records: no message
\* entry being among the fields read, IterateFields returns no error, and
\* LoadValuesByFilter fails only on the full deserialize of a record the
\* predicate accepted.
C23_UnknownTagSoft ==
    /\ (last.op = "IterateFields" /\ last.filter # "nil") =>
          LET keys == IF db[last.typ].exists THEN getKeys(db[last.typ]) ELSE <<>>
          IN  /\ \A i \in 1..Len(last.calls) :
                    UnknownTag(EntryOf(db, last.typ, last.calls[i][1], last.field))
                        => last.calls[i][2] = NilV
              /\ (\A k \in Range(keys) : ~MessageTag(EntryOf(db, last.typ, k, last.field)))
                    => (last.err = NoErr /\ CalledKeys(last.calls) = keys)
    /\ (last.op = "LoadValuesByFilter" /\ last.filter # "nil" /\ last.fields # <<>>) =>
          LET keys == IF db[last.typ].exists THEN getKeys(db[last.typ]) ELSE <<>>
          IN  /\ \A i \in 1..Len(last.calls) : \A f \in Range(last.fields) :
                    UnknownTag(EntryOf(db, last.typ, last.calls[i][1], f))
                        => ~\E p \in last.calls[i][2] : p[1] = f
              /\ (\A k \in Range(keys) : \A f \in Range(last.fields) :
                      ~MessageTag(EntryOf(db, last.typ, k, f)))
                    => /\ last.err = NoErr => CalledKeys(last.calls) = keys
                       /\ last.err # NoErr => SomeRecordMalformed(db, last.typ, last.shape)

\* the callback was handed nil for the record whose name carries the unknown
\* tag, and then the name of the record after it
C23_Witness ==
    /\ last.op = "IterateFields" /\ last.filter = "collect" /\ last.err = NoErr
    /\ last.field = "Name"
    /\ Len(last.calls) = 2
    /\ UnknownTag(EntryOf(db, last.typ, last.calls[1][1], "Name"))
    /\ last.calls[1][2] = NilV
    /\ last.calls[2][2] = Str("x")

\* C24: a type bucket that exists exists in every later state, also after
\* DeleteValues removed all of its records, and a type bucket comes into
\* being only by a successful SaveValue for that type: UpdateValue,
\* DeleteValues, CountValues and the loads never create one.
C24_TypeBucketPersists ==
    [][\A t \in Types :
          /\ db[t].exists => db'[t].exists
          /\ (~db[t].exists /\ db'[t].exists) =>
                (last'.op = "SaveValue" /\ last'.typ = t /\ last'.err = NoErr)]_vars

\* DeleteValues has removed the only records of a type and the type bucket
\* is still there, while the other type has never been saved to
C24_Witness ==
    /\ last.op = "DeleteValues" /\ last.err = NoErr
    /\ last.existed # {}
    /\ db[last.typ].exists
    /\ CountValues(db, last.typ) = 0
    /\ \E t \in Types : ~db[t].exists

\* C25: on a type whose type bucket does not exist CountValues returns 0
\* and no error, and LoadValues, LoadValuesAll and LoadValuesByFilter return
\* an empty map and no error (the predicate is not invoked).
C25_MissingTypeBucketSoft ==
    (last.op \in {"CountValues", "LoadValues", "LoadValuesAll", "LoadValuesByFilter"}
        /\ ~db[last.typ].exists) =>
        /\ last.err = NoErr
        /\ last.op = "CountValues" => last.count = 0
        /\ last.op # "CountValues" => last.values = NoValues
        /\ last.op = "LoadValuesByFilter" => last.calls = <<>>

\* LoadValuesAll was called on a type without a type bucket while the
\* other type holds a record
C25_Witness ==
    /\ last.op = "LoadValuesAll" /\ ~db[last.typ].exists
    /\ last.err = NoErr /\ last.values = NoValues
    /\ \E t \in Types : CountValues(db, t) > 0

\* the keys that have a record under a type
PresentKeys(d, typ) == {k \in Keys : HasRecord(d, typ, k)}

\* C26 as claimed: LoadValuesAll returns a map whose key set is exactly the
\* set of keys that have a record under the type, each mapped to its fully
\* deserialized record, and agrees with LoadValues called with those keys.
C26_LoadAllComplete ==
    (last.op = "LoadValuesAll") =>
        /\ DOMAIN last.values = PresentKeys(db, last.typ)
        /\ \A k \in PresentKeys(db, last.typ) :
              last.values[k] = deserializeObject(db[last.typ].recs[k].ent, last.shape).obj
        /\ \A ks \in KeyLists :
              Range(ks) = PresentKeys(db, last.typ) =>
                  LoadValues(db, last.typ, ks, last.shape).values = last.values

\* C26 amended: LoadValuesAll fails exactly when some record under the type
\* fails to deserialize.  When it succeeds its map has exactly the keys
\* that have a record, each mapped to its deserialized record, and LoadValues
\* called with those keys in any order returns the same.  When it fails it
\* returns the error and the records before the failing one in key order, as
\* LoadValues does when handed the keys in ascending order.
C26_LoadAllCompleteUnlessError ==
    (last.op = "LoadValuesAll") =>
        LET present == PresentKeys(db, last.typ)
            keys == IF db[last.typ].exists THEN getKeys(db[last.typ]) ELSE <<>>
        IN  /\ (last.err # NoErr) <=> SomeRecordMalformed(db, last.typ, last.shape)
            /\ DOMAIN last.values \subseteq present
            /\ \A k \in DOMAIN last.values :
                  last.values[k] = deserializeObject(db[last.typ].recs[k].ent, last.shape).obj
            /\ (last.err = NoErr) =>
                  /\ DOMAIN last.values = present
                  /\ \A ks \in KeyLists :
                        Range(ks) = present =>
                            LoadValues(db, last.typ, ks, last.shape)
                                = [err |-> NoErr, values |-> last.values]
            /\ (last.err # NoErr) =>
                  /\ LoadValues(db, last.typ, keys, last.shape)
                        = [err |-> last.err, values |-> last.values]
                  /\ \E i \in 1..Len(keys) :
                        /\ DOMAIN last.values = {keys[j] : j \in 1..(i - 1)}
                        /\ deserializeObject(db[last.typ].recs[keys[i]].ent,
                                             last.shape).err = last.err

\* both records of a type were loaded, with different names
C26_Witness ==
    /\ last.op = "LoadValuesAll" /\ last.err = NoErr /\ last.shape = "Service"
    /\ DOMAIN last.values = Keys
    /\ last.values["Polaris"].f.Name # last.values["default"].f.Name

\* the keys a read call walks, in the order it walks them
WalkOf(call, d) ==
    IF call.op = "LoadValues" THEN call.keys
    ELSE IF d[call.typ].exists THEN getKeys(d[call.typ]) ELSE <<>>

\* the predicate check of LoadValuesByFilter fails on the record
MatchFails(call, d, k) ==
    /\ call.op = "LoadValuesByFilter"
    /\ HasRecord(d, call.typ, k)
    /\ matchObject(d[call.typ].recs[k].ent, call.fields, call.shape, call.filter).err # NoErr

\* the call, once it reaches the key, runs the full deserialize on its
\* record and the deserialize fails
DecodeFails(call, d, k) ==
    /\ HasRecord(d, call.typ, k)
    /\ call.op = "LoadValuesByFilter" =>
          LET m == matchObject(d[call.typ].recs[k].ent, call.fields, call.shape, call.filter)
          IN  m.err = NoErr /\ m.match
    /\ deserializeObject(d[call.typ].recs[k].ent, call.shape).err # NoErr

\* C27: when the full deserialize of a record fails during LoadValues,
\* LoadValuesAll or LoadValuesByFilter, the call returns that error and
\* processes no further key: its map holds only keys walked before the
\* failing one and the predicate is not invoked for a later key.  The
\* malformed record is never skipped with success reported.
C27_DecodeErrorAborts ==
    (last.op \in {"LoadValues", "LoadValuesAll", "LoadValuesByFilter"}) =>
        LET walk == WalkOf(last, db)
        IN  \A i \in 1..Len(walk) :
                (/\ DecodeFails(last, db, walk[i])
                 /\ \A j \in 1..(i - 1) :
                       ~DecodeFails(last, db, walk[j]) /\ ~MatchFails(last, db, walk[j]))
                =>
                /\ last.err = deserializeObject(db[last.typ].recs[walk[i]].ent, last.shape).err
                /\ last.err # NoErr
                /\ DOMAIN last.values \subseteq {walk[j] : j \in 1..(i - 1)}
                /\ last.op = "LoadValuesByFilter" =>
                      Range(CalledKeys(last.calls)) \subseteq {walk[j] : j \in 1..i}

\* LoadValuesAll met a malformed first record: it returned the error, and
\* the well-formed record after it is not in the map
C27_Witness ==
    /\ last.op = "LoadValuesAll" /\ last.err # NoErr
    /\ DecodeFails(last, db, "Polaris")
    /\ HasRecord(db, last.typ, "default")
    /\ deserializeObject(db[last.typ].recs["default"].ent, last.shape).err = NoErr
    /\ last.values = NoValues


(***************************************************************************)
(* Properties of the raw transaction escape (SpecExec)                     *)
(***************************************************************************)
\* the records a function handed to Execute saves when it runs through
ProcessWrites(process) ==
    CASE process = "saveBoth" -> {<<"service", "Polaris">>, <<"service", "default">>}
      [] process = "saveTwoTypes" -> {<<"service", "Polaris">>, <<"namespace", "default">>}
      [] process = "saveThenFail" -> {<<"service", "Polaris">>}
      [] OTHER -> {}

\* C28: Execute(true, f) runs f in one write transaction.  When f returns nil
\* every write f made, across types and records, is in the store after the
\* call and nothing else has changed; when f returns an error the store is
\* as before the call and Execute returns the error of f.  Execute(false, f)
\* leaves the store as it is, whatever f attempts.
C28_ExecuteAtomic ==
    [][(last'.op = "Execute" /\ nops' = nops + 1) =>
          LET p == last'.process
          IN  /\ (last'.writable /\ last'.err = NoErr) =>
                    /\ p # "saveThenFail"
                    /\ \A w \in ProcessWrites(p) :
                          /\ HasRecord(db', w[1], w[2])
                          /\ deserializeObject(db'[w[1]].recs[w[2]].ent, "Service").obj.f.Name
                                = RecX.f.Name
                    /\ (p = "putNewTag" /\ HasRecord(db, "service", "Polaris")) =>
                          db'["service"].recs["Polaris"].ent[toBucketField("Name")] = Flat(NewTagBuf)
                    /\ \A t \in Types, k \in Keys :
                          (<<t, k>> \notin ProcessWrites(p) /\ ~(p = "putNewTag" /\ <<t, k>> = <<"service", "Polaris">>))
                              => db'[t].recs[k] = db[t].recs[k]
              /\ (last'.writable /\ last'.err # NoErr) => db' = db
              /\ (p = "saveThenFail") => last'.err = "process failed"
              /\ (~last'.writable) => db' = db]_vars

\* a function that saved a record and then failed has left no trace of the
\* record, next to the record an earlier function saved under another type
C28_Witness ==
    /\ last.op = "Execute" /\ last.writable /\ last.process = "saveThenFail"
    /\ last.err = "process failed"
    /\ ~HasRecord(db, "service", "Polaris")
    /\ HasRecord(db, "namespace", "default")


(***************************************************************************)
(* Properties of the instance store (SpecIns)                              *)
(***************************************************************************)
\* the ids a delete call was handed
DeletedIds(call) ==
    IF call.op = "DeleteInstance" THEN {call.id}
    ELSE IF call.op = "BatchDeleteInstances" THEN Range(call.ids)
    ELSE {}

\* C29: a GetInstance(id) that follows a successful DeleteInstance(id), or a
\* successful BatchDeleteInstances of ids with id among them, returns a nil
\* instance and a nil error; an instance that existed keeps its row, flagged
\* invalid.
C29_DeletedNotReturned ==
    (last.op = "GetInstance" /\ last.prev.op \in {"DeleteInstance", "BatchDeleteInstances"}
        /\ last.prev.err = NoErr /\ last.id \in DeletedIds(last.prev)) =>
        /\ last.isnil
        /\ last.err = NoErr
        /\ last.id \in last.prev.existed =>
              (master[last.id].present /\ master[last.id].flag = 1)

\* both instances existed when BatchDeleteInstances flagged them, and
\* GetInstance finds the row of the one asked for and returns nil
C29_Witness ==
    /\ last.op = "GetInstance" /\ last.prev.op = "BatchDeleteInstances"
    /\ last.prev.existed = InstanceIDs
    /\ last.id \in InstanceIDs
    /\ ~getInstance(master, last.id).isnil
    /\ last.isnil /\ last.err = NoErr

\* C30: CheckInstancesExisted returns a map over the ids it was handed in
\* which an id maps to true if and only if a valid (not flagged) instance
\* with that id exists, whatever values the map carried when handed in.
C30_CheckReportsExistence ==
    (last.op = "CheckInstancesExisted" /\ DOMAIN last.ids # {}) =>
        /\ last.err = NoErr /\ ~last.isnil
        /\ DOMAIN last.result = DOMAIN last.ids
        /\ \A k \in DOMAIN last.ids :
              last.result[k] <=>
                  (k \in InstanceIDs /\ master[k].present /\ master[k].flag = 0)

\* an error whose message holds "Deadlock", "bad connection" or "invalid connection"
Retryable(err) ==
    /\ err # NoErr
    /\ \/ Contains(err, "Deadlock")
       \/ Contains(err, "bad connection")
       \/ Contains(err, "invalid connection")

\* the call in hand is a Retry or a RetryTransaction that has returned
Retried == last.op \in {"Retry", "RetryTransaction"}

\* C31: Retry returns after invoking handle at least once and at most 20
\* times; the k-th invocation it makes is the k-th invocation of handle, no
\* invocation but the last returns nil, and when each of the first 20
\* invocations of handle fails with a retried error Retry makes exactly 20.
C31_RetryBounded ==
    Retried =>
        /\ Len(last.calls) \in 1..20
        /\ \A k \in 1..Len(last.calls) : last.calls[k] = invoke(last.handle, k)
        /\ \A k \in 1..(Len(last.calls) - 1) : last.calls[k] # NoErr
        /\ (\A k \in 1..20 : Retryable(invoke(last.handle, k))) => Len(last.calls) = 20

\* a Retry whose handle failed 20 times with a retried error and would fail again
C31_Witness ==
    /\ last.op = "Retry"
    /\ Len(last.calls) = 20
    /\ \A k \in 1..21 : Retryable(invoke(last.handle, k))

\* C32: Retry invokes handle again only after a retried error, so every
\* invocation but the last returned one and an invocation that returns any
\* other error is the last; RetryTransaction returns what the last
\* invocation returned, which is nil exactly when that invocation succeeded.
C32_RetryOnlyRetried ==
    Retried =>
        /\ \A k \in 1..Len(last.calls) :
              k < Len(last.calls) => Retryable(last.calls[k])
        /\ \A k \in 1..Len(last.calls) :
              (last.calls[k] # NoErr /\ ~Retryable(last.calls[k])) => k = Len(last.calls)
        /\ last.op = "RetryTransaction" =>
              /\ last.err = invoke(last.handle, Len(last.calls))
              /\ (last.err = NoErr) <=> (last.calls[Len(last.calls)] = NoErr)

\* a RetryTransaction whose handle failed with a retried error, was invoked
\* again and then failed with an error that is not retried, which is returned
C32_Witness ==
    /\ last.op = "RetryTransaction"
    /\ Len(last.calls) = 3
    /\ Retryable(last.calls[2])
    /\ last.err = "deadlock detected"

\* the pieces a batch call handed to its handler, one after the other
RECURSIVE Concat(_)
Concat(calls) == IF calls = <<>> THEN <<>> ELSE Head(calls) \o Concat(Tail(calls))

\* the handler was run on pieces of at most n objects that follow one another
\* in data from its first object on; every piece but the last was handled
\* without error and the call returned what the handler made of the last;
\* when that is no error the pieces are all of data
Batched(n) ==
    LET all == Concat(last.calls)
    IN  /\ \A k \in 1..Len(last.calls) : Len(last.calls[k]) \in 1..n
        /\ Len(all) <= Len(last.data.elems)
        /\ all = SubSeq(last.data.elems, 1, Len(all))
        /\ \A k \in 1..(Len(last.calls) - 1) : handler(last.h, last.calls[k]) = NoErr
        /\ last.err = IF last.calls = <<>> THEN NoErr
                      ELSE handler(last.h, last.calls[Len(last.calls)])
        /\ last.err = NoErr => all = last.data.elems
        /\ Len(last.data.elems) = 0 => last.calls = <<>>

\* C33: BatchQuery runs handler on consecutive pieces of data of at most 200
\* objects each, which put together in call order are data when no piece
\* fails; it makes no call for empty data, and it makes no call after the
\* first piece the handler fails on and returns that error.
C33_BatchQueryCovers == last.op = "BatchQuery" => Batched(200)

\* a BatchQuery over more than 400 objects that handled three pieces
C33_Witness ==
    /\ last.op = "BatchQuery"
    /\ Len(last.calls) = 3
    /\ last.err = NoErr
    /\ Len(last.calls[3]) < 200

\* C34: BatchOperation runs handler on consecutive pieces of data of at most
\* 100 objects each, which cover data in order when no piece fails; it makes
\* no call for nil or empty data, and after a handler error it returns that
\* error and leaves the remaining pieces alone.
C34_BatchOperationCovers == last.op = "BatchOperation" => Batched(100)

\* a BatchOperation whose handler failed on the second of several pieces
C34_Witness ==
    /\ last.op = "BatchOperation"
    /\ Len(last.calls) = 2
    /\ last.err # NoErr
    /\ Len(last.data.elems) > 200

\* the namespaces at positions offset to offset+limit-1 of a list, positions
\* counted from 0 and clipped to the length of the list
PageAt(s, offset, limit) ==
    LET end == IF offset + limit > Len(s) THEN Len(s) ELSE offset + limit
    IN  IF offset >= Len(s) THEN <<>> ELSE SubSeq(s, offset + 1, end)

\* C35: GetNamespaces(filter, offset, limit) returns the namespaces at
\* positions offset to offset+limit-1, clipped to the number of namespaces,
\* of a list of all namespaces ordered by ModifyTime descending, and none
\* when offset is at or past the end of the list.
C35_PageByOffset ==
    (last.op = "GetNamespaces" /\ last.err = NoErr) =>
        \E s \in sortedNamespaces(LoadValuesAll(db, tblNameNamespace, "Namespace").values) :
            last.list = PageAt(s, last.offset, last.limit)

\* the names InitData looks after
InitNames == {"default", "Polaris"}

\* InitData run on the store d with no other caller between its
\* transactions: when it returns without error GetNamespace finds both
\* names and a second run changes nothing, and whatever it returns the
\* namespaces that were in d are as they were
InitDataAlone(d) ==
    \A clock \in Clocks :
        LET r == InitData(d, clock)
        IN  /\ r.err = NoErr =>
                  /\ \A n \in InitNames :
                        GetNamespace(r.db, n).err = NoErr /\ ~GetNamespace(r.db, n).isnil
                  /\ InitData(r.db, clock) = TxResult(NoErr, r.db)
            /\ \A n \in InitNames :
                  HasRecord(d, tblNameNamespace, n) =>
                      r.db[tblNameNamespace].recs[n] = d[tblNameNamespace].recs[n]

\* C36: an InitData that returns without error leaves a namespace "default"
\* and a namespace "Polaris"; whatever it returns and whatever other callers
\* commit between its transactions, no transaction of InitData changes a
\* namespace of either name that was there before the call; and on every
\* store a call begins on, the call run alone leaves the namespaces that
\* are there as they are and a second run changes nothing.
C36_InitDataIdempotent ==
    [][last'.op = "InitData" =>
          /\ (last'.returned /\ last'.err = NoErr) =>
                \A n \in InitNames : HasRecord(db', tblNameNamespace, n)
          /\ \A n \in last'.existed :
                db'[tblNameNamespace].recs[n] = db[tblNameNamespace].recs[n]
          /\ running[last'.caller] = NoCall => InitDataAlone(db)]_vars

\* an InitData that returned without error on a store whose namespace
\* "default" carries a token UpdateNamespaceToken has set: it has added
\* "Polaris" and left "default" as it was
C36_Witness ==
    /\ last.op = "InitData"
    /\ last.returned
    /\ last.err = NoErr
    /\ last.existed = {"default"}
    /\ GetNamespace(db, "default").ns.f.Token = Str("222222")
    /\ GetNamespace(db, "Polaris").ns.f.Token = Str(namespaceToToken("Polaris"))

\* the name an update call is for, and the fields it is to change
UpdatedName(call) ==
    IF call.op = "UpdateNamespace" THEN call.namespace.f.Name.s ELSE call.name
UpdatedFields(call) ==
    IF call.op = "UpdateNamespace" THEN {"Owner", "Comment", "ModifyTime"}
    ELSE {"Token", "ModifyTime"}
\* the value the call hands in for one of these fields
UpdatedValue(call, f) ==
    IF f = "ModifyTime" THEN Time(call.now)
    ELSE IF f = "Token" THEN Str(call.token)
    ELSE call.namespace.f[f]
\* the call was handed an empty name, owner or token
EmptyParam(call) ==
    IF call.op = "UpdateNamespace"
    THEN call.namespace.f.Name.s = "" \/ call.namespace.f.Owner.s = ""
    ELSE call.name = "" \/ call.token = ""
\* the call is the update of a namespace
IsUpdate(call) == call.op \in {"UpdateNamespace", "UpdateNamespaceToken"}

\* every record but the named one is as before; in the named one every entry
\* but those of the fields to change is as before, and no record and no type
\* bucket is created
UpdateFrame(d, call, e) ==
    /\ \A t \in Types : e[t].exists = d[t].exists
    /\ \A t \in Types, k \in Keys :
          /\ e[t].recs[k].present = d[t].recs[k].present
          /\ (t # tblNameNamespace \/ k # UpdatedName(call)) => e[t].recs[k] = d[t].recs[k]
          /\ \A f \in FieldNames \ UpdatedFields(call) :
                e[t].recs[k].ent[toBucketField(f)] = d[t].recs[k].ent[toBucketField(f)]

\* C37 as stated: UpdateNamespace changes only Owner, Comment and ModifyTime
\* of the named namespace and UpdateNamespaceToken only its Token and
\* ModifyTime; both return no error and create nothing when the namespace
\* does not exist.
C37_UpdateFrame ==
    [][IsUpdate(last') =>
          /\ UpdateFrame(db, last', db')
          /\ ~HasRecord(db, tblNameNamespace, UpdatedName(last')) =>
                (last'.err = NoErr /\ db' = db)]_vars

\* C37: an update call handed an empty name, owner or token returns an error
\* and changes nothing; any other returns no error, changes nothing when the
\* namespace does not exist, and otherwise sets the fields it is to change
\* (Owner, Comment, ModifyTime, or Token, ModifyTime) of the named namespace
\* to the values handed in and leaves every other field, every other record
\* and the set of records as they were.
C37_UpdateFrameValid ==
    [][IsUpdate(last') =>
          /\ UpdateFrame(db, last', db')
          /\ EmptyParam(last') => (last'.err # NoErr /\ db' = db)
          /\ ~EmptyParam(last') =>
                /\ last'.err = NoErr
                /\ ~HasRecord(db, tblNameNamespace, UpdatedName(last')) => db' = db
                /\ HasRecord(db, tblNameNamespace, UpdatedName(last')) =>
                      \A f \in UpdatedFields(last') :
                          db'[tblNameNamespace].recs[UpdatedName(last')].ent[toBucketField(f)]
                              = Flat(encodeScalar(UpdatedValue(last', f)))]_vars

\* an UpdateNamespace that gave the namespace "default" a new owner and left
\* its token, which the namespace handed in does not carry
C37_Witness ==
    /\ last.op = "UpdateNamespace"
    /\ last.err = NoErr
    /\ GetNamespace(db, "default").ns.f.Owner = Str("user2")
    /\ GetNamespace(db, "default").ns.f.Token = Str("111111")
    /\ last.namespace.f.Token = Str("333333")

====
